---- MODULE Spec2Model ----
(***************************************************************************)
(* IPP dissector (epan/dissectors/packet-ipp.c): the request/response      *)
(* transaction tracking of dissect_ipp, and the attribute parse of         *)
(* parse_attributes with the value decoders it calls.                      *)
(*                                                                         *)
(* A capture is a growing list of frames.  Every frame is dissected once   *)
(* with its "visited" flag clear (the sequential first pass, in frame      *)
(* order) and may afterwards be dissected again, any number of times and   *)
(* in any order, with the flag set.  Each conversation carries an          *)
(* ipp_conv_info_t whose pdus map takes a request id to a transaction.     *)
(***************************************************************************)
EXTENDS Integers, Sequences, FiniteSets, TLC

\* Bounds of the model.
MaxFrames == 4          \* frames of a capture of one connection
MaxConvFrames == 3      \* frames of a capture of two connections
MaxTime == 1            \* latest capture timestamp

Conversations == {"A", "B"}
RequestIds == {1, 2}

\* The fixed header: version(2) | operation or status(2) | request id(4).
HeaderLen == 8

VARIABLES
    frames,     \* the capture: frames[n] is the frame with pinfo->num = n
    ipp_info,   \* per conversation: the proto data attached to it
    pinfo,      \* the frame number and visited flag of the last dissect_ipp call
    ipp_tree,   \* the generated items the last call put in the tree
    result      \* how the last call ended

vars == <<frames, ipp_info, pinfo, ipp_tree, result>>

\* The attribute parse of one message (parse_attributes and lines 549-554).
VARIABLES
    tvb,          \* the message buffer, tvb[o + 1] being the byte at offset o
    offset,       \* parse_attributes: offset
    start_offset, \* parse_attributes: start_offset
    as_tree,      \* parse_attributes: as_tree (an item number, Root or Null)
    attr_tree,    \* parse_attributes: attr_tree
    tas,          \* parse_attributes: tas
    subtree,      \* parse_attributes: subtree
    items,        \* the items added to the protocol tree, in order
    data,         \* the bytes handed to the data dissector
    pc            \* where the parse stands

pvars == <<tvb, offset, start_offset, as_tree, attr_tree, tas, subtree,
           items, data, pc>>

----------------------------------------------------------------------------
\* Helpers of the libraries the dissector calls.

\* wmem_map_new: a map with no key.
wmem_map_new == [k \in {} |-> 0]

\* wmem_map_insert: the value of key is replaced, the other keys are kept.
wmem_map_insert(map, key, value) ==
    [k \in (DOMAIN map) \cup {key} |-> IF k = key THEN value ELSE map[k]]

\* wmem_map_lookup: the value of key, or NULL (the empty sequence).
wmem_map_lookup(map, key) ==
    IF key \in DOMAIN map THEN <<map[key]>> ELSE <<>>

\* nstime_delta(delta, b, a): delta = b - a.
nstime_delta(b, a) == b - a

\* tvb_get_ntohs(tvb, 2) and tvb_get_ntohl(tvb, 4) throw unless the buffer
\* holds the bytes they read, that is the whole fixed header.
HeaderReadable(f) == f.tvb_len >= HeaderLen

\* find_or_create_conversation: the conversation the frame belongs to.
find_or_create_conversation(f) == f.conv

----------------------------------------------------------------------------
\* dissect_ipp, lines 451-508.

NoInfo == [present |-> FALSE, pdus |-> wmem_map_new]

\* Lines 452-458: the conversation's ipp_conv_info_t, created on first use.
conversation_get_proto_data(info) ==
    IF ~info.present
    THEN [present |-> TRUE, pdus |-> wmem_map_new]
    ELSE info

\* Faulty variant of RecordRequest: a known id has its transaction updated in
\* place, so a response frame recorded earlier survives.
RecordRequest_KeepResponse(pdus, request_id, num, abs_ts) ==
    IF request_id \in DOMAIN pdus
    THEN [pdus EXCEPT ![request_id].req_frame = num,
                      ![request_id].req_time = abs_ts]
    ELSE wmem_map_insert(pdus, request_id,
                         [req_frame |-> num, rep_frame |-> 0,
                          req_time |-> abs_ts])

\* Faulty variant of RecordRequest: a known id keeps its first transaction.
RecordRequest_KeepFirst(pdus, request_id, num, abs_ts) ==
    IF request_id \in DOMAIN pdus
    THEN pdus
    ELSE wmem_map_insert(pdus, request_id,
                         [req_frame |-> num, rep_frame |-> 0,
                          req_time |-> abs_ts])

\* Faulty variant of RecordRequest: the request's frame is also put down as
\* the frame of its response.
RecordRequest_OwnResponse(pdus, request_id, num, abs_ts) ==
    wmem_map_insert(pdus, request_id,
                    [req_frame |-> num, rep_frame |-> num, req_time |-> abs_ts])

\* Lines 462-466: a fresh transaction replaces whatever the id mapped to.
RecordRequest(pdus, request_id, num, abs_ts) ==
    wmem_map_insert(pdus, request_id,
                    [req_frame |-> num, rep_frame |-> 0, req_time |-> abs_ts])

\* Faulty variant of RecordResponse: the frame number lands in req_frame.
RecordResponse_ReqFrame(pdus, request_id, num) ==
    IF wmem_map_lookup(pdus, request_id) # <<>>
    THEN [pdus EXCEPT ![request_id].req_frame = num]
    ELSE pdus

\* Faulty variant of RecordResponse: an unknown id gets a transaction.
RecordResponse_Create(pdus, request_id, num) ==
    IF wmem_map_lookup(pdus, request_id) # <<>>
    THEN [pdus EXCEPT ![request_id].rep_frame = num]
    ELSE wmem_map_insert(pdus, request_id,
                         [req_frame |-> 0, rep_frame |-> num, req_time |-> 0])

\* Faulty variant of RecordResponse: every transaction of the map is completed.
RecordResponse_All(pdus, request_id, num) ==
    IF wmem_map_lookup(pdus, request_id) # <<>>
    THEN [k \in DOMAIN pdus |-> [pdus[k] EXCEPT !.rep_frame = num]]
    ELSE pdus

\* Faulty variant of RecordResponse: a completed transaction leaves the map.
RecordResponse_Remove(pdus, request_id, num) ==
    IF wmem_map_lookup(pdus, request_id) # <<>>
    THEN [k \in (DOMAIN pdus) \ {request_id} |-> pdus[k]]
    ELSE pdus

\* Faulty variant of RecordResponse: a response frame recorded earlier stays.
RecordResponse_FirstWins(pdus, request_id, num) ==
    IF wmem_map_lookup(pdus, request_id) # <<>>
       /\ pdus[request_id].rep_frame = 0
    THEN [pdus EXCEPT ![request_id].rep_frame = num]
    ELSE pdus

\* Lines 468-471: the transaction of the id, if any, gets its rep_frame.
RecordResponse(pdus, request_id, num) ==
    IF wmem_map_lookup(pdus, request_id) # <<>>
    THEN [pdus EXCEPT ![request_id].rep_frame = num]
    ELSE pdus

\* Faulty variant of UpdateStore: the visited flag is not consulted.
UpdateStore_Always(pdus, f, num, visited) ==
    IF f.is_request
    THEN RecordRequest(pdus, f.request_id, num, f.abs_ts)
    ELSE RecordResponse(pdus, f.request_id, num)

\* Lines 459-475: the map is written on the first visit only.
UpdateStore(pdus, f, num, visited) ==
    IF ~visited
    THEN IF f.is_request
         THEN RecordRequest(pdus, f.request_id, num, f.abs_ts)
         ELSE RecordResponse(pdus, f.request_id, num)
    ELSE pdus

\* Lines 459-475: ipp_trans points at the transaction just inserted (462),
\* just completed (468) or looked up (474); in each case it is the entry of
\* the id in the map as the call leaves it, or NULL.
TransOf(pdus, f) == wmem_map_lookup(pdus, f.request_id)

\* Faulty variant of FakeTrans: the fake stands in for every transaction.
FakeTrans_Always(ipp_trans, abs_ts) ==
    <<[req_frame |-> 0, rep_frame |-> 0, req_time |-> abs_ts]>>

\* Lines 476-482: a NULL ipp_trans is replaced by a packet-scoped fake.
FakeTrans(ipp_trans, abs_ts) ==
    IF ipp_trans = <<>>
    THEN <<[req_frame |-> 0, rep_frame |-> 0, req_time |-> abs_ts]>>
    ELSE ipp_trans

NoItems ==
    [response_in |-> <<>>, response_to |-> <<>>, response_time |-> <<>>,
     request_id |-> <<>>]

\* Faulty variant of ResponseTime: the arguments of nstime_delta are swapped.
ResponseTime_Swapped(trans, abs_ts) == nstime_delta(trans.req_time, abs_ts)

\* Lines 496-507: the elapsed time put under hf_ipp_response_time.
ResponseTime(trans, abs_ts) == nstime_delta(abs_ts, trans.req_time)

\* Lines 484-508 and 546: the generated items, then the header's request id.
StateTracking(trans, f) ==
    [response_in   |-> IF f.is_request /\ trans.rep_frame # 0
                       THEN <<trans.rep_frame>> ELSE <<>>,
     response_to   |-> IF ~f.is_request /\ trans.req_frame # 0
                       THEN <<trans.req_frame>> ELSE <<>>,
     response_time |-> IF ~f.is_request /\ trans.req_frame # 0
                       THEN <<ResponseTime(trans, f.abs_ts)>> ELSE <<>>,
     request_id    |-> <<f.request_id>>]

\* Faulty variant of conversation_add_proto_data: one ipp_conv_info_t serves
\* every conversation.
conversation_add_proto_data_Shared(info, conversation, pdus) ==
    [c \in DOMAIN info |-> [present |-> TRUE, pdus |-> pdus]]

\* Lines 454-457: the proto data is attached to this conversation, and the map
\* it points to is the one the call has written.
conversation_add_proto_data(info, conversation, pdus) ==
    [info EXCEPT ![conversation] = [present |-> TRUE, pdus |-> pdus]]

\* Faulty variant of dissect_ipp: the header is read after the store has
\* been written.
dissect_ipp_StoreFirst(info, f, num, visited) ==
    LET conversation == find_or_create_conversation(f)
        mine      == conversation_get_proto_data(info[conversation])
        pdus      == UpdateStore(mine.pdus, f, num, visited)
        ipp_trans == FakeTrans(TransOf(pdus, f), f.abs_ts)
        after     == conversation_add_proto_data(info, conversation, pdus)
    IN  IF ~HeaderReadable(f)
        THEN [ipp_info |-> after, tree |-> NoItems, result |-> "exception"]
        ELSE [ipp_info |-> after,
              tree |-> StateTracking(ipp_trans[1], f),
              result |-> "ok"]

\* dissect_ipp as a function of the proto data of all conversations and of
\* the frame: the proto data it leaves, the items it adds, how it ends.
dissect_ipp(info, f, num, visited) ==
    IF ~HeaderReadable(f)
    THEN [ipp_info |-> info, tree |-> NoItems, result |-> "exception"]
    ELSE LET conversation == find_or_create_conversation(f)
             mine      == conversation_get_proto_data(info[conversation])
             pdus      == UpdateStore(mine.pdus, f, num, visited)
             ipp_trans == FakeTrans(TransOf(pdus, f), f.abs_ts)
             after     == conversation_add_proto_data(info, conversation, pdus)
         IN  IF ipp_trans = <<>>
             THEN \* ipp_trans->rep_frame on a NULL pointer
                  [ipp_info |-> after, tree |-> NoItems, result |-> "crash"]
             ELSE [ipp_info |-> after,
                   tree |-> StateTracking(ipp_trans[1], f),
                   result |-> "ok"]

----------------------------------------------------------------------------
\* The capture and its passes.

Now == IF frames = <<>> THEN 0 ELSE frames[Len(frames)].abs_ts

Call(f, num, visited) ==
    LET r == dissect_ipp(ipp_info, f, num, visited)
    IN  /\ ipp_info' = r.ipp_info
        /\ ipp_tree' = r.tree
        /\ result' = r.result
        /\ pinfo' = [num |-> num, visited |-> visited]
        /\ UNCHANGED pvars

\* No capture yet.
NoCapture ==
    /\ frames = <<>>
    /\ ipp_info = [c \in Conversations |-> NoInfo]
    /\ pinfo = [num |-> 0, visited |-> FALSE]
    /\ ipp_tree = NoItems
    /\ result = "none"

\* No attribute parse under way.
NoParse ==
    /\ tvb = <<>>
    /\ offset = 0
    /\ start_offset = 0
    /\ as_tree = 0
    /\ attr_tree = 0
    /\ tas = -1
    /\ subtree = -1
    /\ items = <<>>
    /\ data = <<>>
    /\ pc = "idle"

Init == NoCapture /\ NoParse

\* The first pass reaches a new frame, which carries a whole header.
Visit(convs, limit) ==
    /\ Len(frames) < limit
    /\ \E c \in convs, q \in BOOLEAN, id \in RequestIds, ts \in Now..MaxTime :
          LET f == [conv |-> c, is_request |-> q, tvb_len |-> HeaderLen,
                    request_id |-> id, abs_ts |-> ts]
          IN  /\ frames' = Append(frames, f)
              /\ Call(f, Len(frames) + 1, FALSE)

\* A capture of one connection.
FirstVisit == Visit({"A"}, MaxFrames)

\* A capture of several connections.
FirstVisitAny == Visit(Conversations, MaxConvFrames)

\* A frame already seen is dissected again.
Revisit ==
    /\ \E n \in 1..Len(frames) :
          /\ Call(frames[n], n, TRUE)
          /\ UNCHANGED frames

Next == FirstVisit \/ Revisit

Spec == Init /\ [][Next]_vars

NextConv == FirstVisitAny \/ Revisit

SpecConv == Init /\ [][NextConv]_vars

\* A capture of one connection in which messages may be cut short of the
\* fixed header.
MaxShortFrames == 3
ShortLengths == {0, 3, 7}

\* The first pass reaches a frame too short for the header.  What its
\* request id field would hold is never read.
ShortVisit ==
    /\ Len(frames) < MaxShortFrames
    /\ \E q \in BOOLEAN, n \in ShortLengths :
          LET f == [conv |-> "A", is_request |-> q, tvb_len |-> n,
                    request_id |-> 1, abs_ts |-> Now]
          IN  /\ frames' = Append(frames, f)
              /\ Call(f, Len(frames) + 1, FALSE)

NextShort == Visit({"A"}, MaxShortFrames) \/ ShortVisit \/ Revisit

SpecShort == Init /\ [][NextShort]_vars

----------------------------------------------------------------------------
\* The buffer accessors of the tvbuff library, on a buffer t whose byte at
\* offset o is t[o + 1].  An accessor throws when a byte it reads is missing.

tvb_offset_exists(t, o) == o >= 0 /\ o < Len(t)

\* tvb_ensure_bytes_exist: the n bytes from offset o are in the buffer.
BytesExist(t, o, n) == o >= 0 /\ n >= 0 /\ o + n <= Len(t)

tvb_get_guint8(t, o) == t[o + 1]

tvb_get_ntohs(t, o) == t[o + 1] * 256 + t[o + 2]

\* The n bytes from offset o.
tvb_get_ptr(t, o, n) == SubSeq(t, o + 1, o + n)

\* tvb_new_subset_remaining: the bytes from offset o to the end.
tvb_new_subset_remaining(t, o) == SubSeq(t, o + 1, Len(t))

----------------------------------------------------------------------------
\* Tags, lines 557-630.

TAG_TYPE(x) == (x \div 16) * 16

TAG_TYPE_DELIMITER == 0
TAG_TYPE_OUTOFBAND == 16
TAG_TYPE_INTEGER == 32
TAG_TYPE_OCTETSTRING == 48
TAG_TYPE_CHARSTRING == 64

TAG_END_OF_ATTRIBUTES == 3

TAG_INTEGER == 33
TAG_BOOLEAN == 34
TAG_ENUM == 35

TAG_OCTETSTRING == 48
TAG_DATETIME == 49
TAG_RESOLUTION == 50
TAG_RANGEOFINTEGER == 51
TAG_TEXTWITHLANGUAGE == 53
TAG_NAMEWITHLANGUAGE == 54

\* tag_vals: the tags that have a name.
tag_vals ==
    [t \in {1, 2, 3, 4, 5, 6, 7, 8, 9,
            16, 18, 19, 21, 22, 23,
            33, 34, 35,
            48, 49, 50, 51, 52, 53, 54, 55,
            65, 66, 68, 69, 70, 71, 72, 73, 74} |->
        CASE t = 1 -> "operation-attributes-tag"
          [] t = 2 -> "job-attributes-tag"
          [] t = 3 -> "end-of-attributes-tag"
          [] t = 4 -> "printer-attributes-tag"
          [] t = 5 -> "unsupported-attributes-tag"
          [] t = 6 -> "subscription-attributes-tag"
          [] t = 7 -> "event-notification-attributes-tag"
          [] t = 8 -> "resource-attributes-tag"
          [] t = 9 -> "document-attributes-tag"
          [] t = 16 -> "unsupported"
          [] t = 18 -> "unknown"
          [] t = 19 -> "no-value"
          [] t = 21 -> "not-settable"
          [] t = 22 -> "delete-attribute"
          [] t = 23 -> "admin-define"
          [] t = 33 -> "integer"
          [] t = 34 -> "boolean"
          [] t = 35 -> "enum"
          [] t = 48 -> "octetString"
          [] t = 49 -> "dateTime"
          [] t = 50 -> "resolution"
          [] t = 51 -> "rangeOfInteger"
          [] t = 52 -> "begCollection"
          [] t = 53 -> "textWithLanguage"
          [] t = 54 -> "nameWithLanguage"
          [] t = 55 -> "endCollection"
          [] t = 65 -> "textWithoutLanguage"
          [] t = 66 -> "nameWithoutLanguage"
          [] t = 68 -> "keyword"
          [] t = 69 -> "uri"
          [] t = 70 -> "uriScheme"
          [] t = 71 -> "charset"
          [] t = 72 -> "naturalLanguage"
          [] t = 73 -> "mimeMediaType"
          [] OTHER -> "memberAttrName"]

----------------------------------------------------------------------------
\* The protocol tree.  A tree is named by the number of the item it hangs
\* under; Root is the tree handed to parse_attributes, Null the NULL pointer.

Root == 0
Null == -1

Item(kind, parent, start, len, val, label) ==
    [kind |-> kind, parent |-> parent, start |-> start, len |-> len,
     val |-> val, label |-> label]

\* An attribute's item: label says which format made its text, text is the
\* value part of that text.
AttrItem(parent, start, len, tag, label, text) ==
    [kind |-> "attr", parent |-> parent, start |-> start, len |-> len,
     val |-> tag, label |-> label, text |-> text]

\* The length of one value record.
RecordLen(name_length, value_length) ==
    1 + 2 + name_length + 2 + value_length

\* What a decoder returns: the items as it leaves them, whether it threw, and
\* (for the functions that return a tree) the tree.
Thrown(its) == [items |-> its, thrown |-> TRUE, tree |-> Null]
Added(its, it) ==
    [items |-> Append(its, it), thrown |-> FALSE, tree |-> Len(its) + 1]

----------------------------------------------------------------------------
\* Text: what the printf conversions and the library's formatters make of
\* numbers and bytes.

\* A 32-bit word is held as its two 16-bit halves.
tvb_get_ntohl(t, o) ==
    [hi |-> t[o + 1] * 256 + t[o + 2], lo |-> t[o + 3] * 256 + t[o + 4]]

\* A 32-bit word read as a signed number, as %d prints it and as the
\* conversion to int makes it.
Signed32(u) ==
    IF u.hi >= 32768
    THEN (u.hi - 65536) * 65536 + u.lo
    ELSE u.hi * 65536 + u.lo

\* A 32-bit word as the key of a value_string table: no table has a value of
\* 2^31 or more, and such a word finds none.
TableKey(u) == IF u.hi >= 32768 THEN Null ELSE u.hi * 65536 + u.lo

Decimal(n) == ToString(n)

\* %02d and %04d of a number that is not negative.
RECURSIVE ZeroPad(_, _)
ZeroPad(str, width) ==
    IF Len(str) >= width THEN str ELSE ZeroPad("0" \o str, width)

HexDigit(n) == SubSeq("0123456789abcdef", n + 1, n + 1)

\* %02x of a byte.
Hex2(b) == HexDigit(b \div 16) \o HexDigit(b % 16)

\* %c of a byte: the printable characters from the space (32) to the
\* underscore (95) and from a (97) to the tilde (126); the grave accent (96)
\* and the bytes that are no printable character stand as <xx>.
Chr(b) ==
    LET from32 ==
            " !\"#$%&'()*+,-./0123456789:;<=>?@ABCDEFGHIJKLMNOPQRSTUVWXYZ[\\]^_"
        from97 == "abcdefghijklmnopqrstuvwxyz{|}~"
    IN  IF b \in 32..95
        THEN SubSeq(from32, b - 31, b - 31)
        ELSE IF b \in 97..126
        THEN SubSeq(from97, b - 96, b - 96)
        ELSE "<" \o Hex2(b) \o ">"

\* format_text: printable characters as they are, the others escaped.
Escaped(b) ==
    CASE b = 7 -> "\\a"
      [] b = 8 -> "\\b"
      [] b = 12 -> "\\f"
      [] b = 10 -> "\\n"
      [] b = 13 -> "\\r"
      [] b = 9 -> "\\t"
      [] b = 11 -> "\\v"
      [] OTHER -> "\\" \o HexDigit(b \div 64) \o HexDigit((b \div 8) % 8)
                      \o HexDigit(b % 8)

RECURSIVE format_text(_)
format_text(bytes) ==
    IF bytes = <<>>
    THEN ""
    ELSE (IF Head(bytes) \in 32..126 THEN Chr(Head(bytes))
          ELSE Escaped(Head(bytes)))
         \o format_text(Tail(bytes))

\* tvb_bytes_to_str: two hex digits a byte.
RECURSIVE bytes_to_str(_)
bytes_to_str(bytes) ==
    IF bytes = <<>> THEN "" ELSE Hex2(Head(bytes)) \o bytes_to_str(Tail(bytes))

\* Line 646: val_to_str(tag, tag_vals, "Reserved (0x%02x)").
TagDesc(tag) ==
    IF tag \in DOMAIN tag_vals THEN tag_vals[tag]
    ELSE "Reserved (0x" \o Hex2(tag) \o ")"

\* val_to_str_const: the string of a value in a table, or the placeholder.
val_to_str_const(val, vs, unknown_str) ==
    IF TableKey(val) \in DOMAIN vs THEN vs[TableKey(val)] ELSE unknown_str

----------------------------------------------------------------------------
\* The value_string tables of the enums and of the boolean.

\* Lines 95-185.
operation_vals ==
    2 :> "Print-Job" @@ 3 :> "Print-URI" @@ 4 :> "Validate-Job" @@
    5 :> "Create-Job" @@ 6 :> "Send-Document" @@ 7 :> "Send-URI" @@
    8 :> "Cancel-Job" @@ 9 :> "Get-Job-Attributes" @@ 10 :> "Get-Jobs" @@
    11 :> "Get-Printer-Attributes" @@ 12 :> "Hold-Job" @@
    13 :> "Release-Job" @@ 14 :> "Restart-Job" @@ 16 :> "Pause-Printer" @@
    17 :> "Resume-Printer" @@ 18 :> "Purge-Jobs" @@
    19 :> "Set-Printer-Attributes" @@ 20 :> "Set-Job-Attributes" @@
    21 :> "Get-Printer-Supported-Values" @@
    22 :> "Create-Printer-Subscriptions" @@
    23 :> "Create-Job-Subscriptions" @@
    24 :> "Get-Subscription-Attributes" @@ 25 :> "Get-Subscriptions" @@
    26 :> "Renew-Subscription" @@ 27 :> "Cancel-Subscription" @@
    28 :> "Get-Notifications" @@ 29 :> "Reserved (ipp-indp-method)" @@
    30 :> "Reserved (ipp-get-resources)" @@
    31 :> "Reserved (ipp-get-resources)" @@
    32 :> "Reserved (ipp-get-resources)" @@
    33 :> "Reserved (ipp-install)" @@ 34 :> "Enable-Printer" @@
    35 :> "Disable-Printer" @@ 36 :> "Pause-Printer-After-Current-Job" @@
    37 :> "Hold-New-Jobs" @@ 38 :> "Release-Held-New-Jobs" @@
    39 :> "Deactivate-Printer" @@ 40 :> "Activate-Printer" @@
    41 :> "Restart-Printer" @@ 42 :> "Shutdown-Printer" @@
    43 :> "Startup-Printer" @@ 44 :> "Reprocess-Job" @@
    45 :> "Cancel-Current-Job" @@ 46 :> "Suspend-Current-Job" @@
    47 :> "Resume-Job" @@ 48 :> "Promote-Job" @@
    49 :> "Schedule-Job-After" @@ 51 :> "Cancel-Document" @@
    52 :> "Get-Document-Attributes" @@ 53 :> "Get-Documents" @@
    54 :> "Delete-Document" @@ 55 :> "Set-Document-Attributes" @@
    56 :> "Cancel-Jobs" @@ 57 :> "Cancel-My-Jobs" @@
    58 :> "Resubmit-Job" @@ 59 :> "Close-Job" @@
    60 :> "Identify-Printer" @@ 61 :> "Validate-Document" @@
    62 :> "Add-Document-Images" @@ 63 :> "Acknowledge-Document" @@
    64 :> "Acknowledge-Identify-Printer" @@ 65 :> "Acknowledge-Job" @@
    66 :> "Fetch-Document" @@ 67 :> "Fetch-Job" @@
    68 :> "Get-Output-Device-Attributes" @@ 69 :> "Update-Active-Jobs" @@
    70 :> "Deregister-Output-Device" @@ 71 :> "Update-Document-Status" @@
    72 :> "Update-Job-Status" @@ 73 :> "Update-Output-Device-Attributes" @@
    74 :> "Get-Next-Document-Data" @@ 16385 :> "CUPS-Get-Default" @@
    16386 :> "CUPS-Get-Printers" @@ 16387 :> "CUPS-Add-Modify-Printer" @@
    16388 :> "CUPS-Delete-Printer" @@ 16389 :> "CUPS-Get-Classes" @@
    16390 :> "CUPS-Add-Modify-Class" @@ 16391 :> "CUPS-Delete-Class" @@
    16392 :> "CUPS-Accept-Jobs" @@ 16393 :> "CUPS-Reject-Jobs" @@
    16394 :> "CUPS-Set-Default" @@ 16395 :> "CUPS-Get-Devices" @@
    16396 :> "CUPS-Get-PPDs" @@ 16397 :> "CUPS-Move-Job" @@
    16398 :> "CUPS-Authenticate-Job" @@ 16399 :> "CUPS-Get-PPD" @@
    16423 :> "CUPS-Get-Document" @@ 16424 :> "CUPS-Create-Local-Printer"

\* Lines 191-196.
printer_state_vals ==
    3 :> "idle" @@ 4 :> "processing" @@ 5 :> "stopped"

\* Lines 199-208.
job_state_vals ==
    3 :> "pending" @@ 4 :> "pending-held" @@ 5 :> "processing" @@
    6 :> "processing-stopped" @@ 7 :> "canceled" @@ 8 :> "aborted" @@
    9 :> "completed"

\* Lines 211-219.
document_state_vals ==
    3 :> "pending" @@ 5 :> "processing" @@ 6 :> "processing-stopped" @@
    7 :> "canceled" @@ 8 :> "aborted" @@ 9 :> "completed"

\* Lines 222-293.
finishings_vals ==
    3 :> "none" @@ 4 :> "staple" @@ 5 :> "punch" @@ 6 :> "cover" @@
    7 :> "bind" @@ 8 :> "saddle-stitch" @@ 9 :> "edge-stitch" @@
    10 :> "fold" @@ 11 :> "trim" @@ 12 :> "bale" @@
    13 :> "booklet-maker" @@ 14 :> "jog-offset" @@ 15 :> "coat" @@
    16 :> "laminate" @@ 20 :> "staple-top-left" @@
    21 :> "staple-bottom-left" @@ 22 :> "staple-top-right" @@
    23 :> "staple-bottom-right" @@ 24 :> "edge-stitch-left" @@
    25 :> "edge-stitch-top" @@ 26 :> "edge-stitch-right" @@
    27 :> "edge-stitch-bottom" @@ 28 :> "staple-dual-left" @@
    29 :> "staple-dual-top" @@ 30 :> "staple-dual-right" @@
    31 :> "staple-dual-bottom" @@ 32 :> "staple-triple-left" @@
    33 :> "staple-triple-top" @@ 34 :> "staple-triple-right" @@
    35 :> "staple-triple-bottom" @@ 50 :> "bind-left" @@
    51 :> "bind-top" @@ 52 :> "bind-right" @@ 53 :> "bind-bottom" @@
    60 :> "trim-after-pages" @@ 61 :> "trim-after-documents" @@
    62 :> "trim-after-copies" @@ 63 :> "trim-after-job" @@
    70 :> "punch-top-left" @@ 71 :> "punch-bottom-left" @@
    72 :> "punch-top-right" @@ 73 :> "punch-bottom-right" @@
    74 :> "punch-dual-left" @@ 75 :> "punch-dual-top" @@
    76 :> "punch-dual-right" @@ 77 :> "punch-dual-bottom" @@
    78 :> "punch-triple-left" @@ 79 :> "punch-triple-top" @@
    80 :> "punch-triple-right" @@ 81 :> "punch-triple-bottom" @@
    82 :> "punch-quad-left" @@ 83 :> "punch-quad-top" @@
    84 :> "punch-quad-right" @@ 85 :> "punch-quad-bottom" @@
    86 :> "punch-multiple-left" @@ 87 :> "punch-multiple-top" @@
    88 :> "punch-multiple-right" @@ 89 :> "punch-multiple-bottom" @@
    90 :> "fold-accordion" @@ 91 :> "fold-double-gate" @@
    92 :> "fold-gate" @@ 93 :> "fold-half" @@ 94 :> "fold-half-z" @@
    95 :> "fold-left-gate" @@ 96 :> "fold-letter" @@
    97 :> "fold-parallel" @@ 98 :> "fold-poster" @@
    99 :> "fold-right-gate" @@ 100 :> "fold-z"

\* Lines 295-302.
orientation_vals ==
    3 :> "portrait" @@ 4 :> "landscape" @@ 5 :> "reverse-landscape" @@
    6 :> "reverse-portrait" @@ 7 :> "none"

\* Lines 304-309.
quality_vals ==
    3 :> "draft" @@ 4 :> "normal" @@ 5 :> "high"

\* Lines 311-319.
transmission_status_vals ==
    3 :> "pending" @@ 4 :> "pending-retry" @@ 5 :> "processing" @@
    7 :> "canceled" @@ 8 :> "aborted" @@ 9 :> "completed"

\* Lines 762-766.
bool_vals ==
    0 :> "false" @@ 1 :> "true"

----------------------------------------------------------------------------
\* The value decoders, lines 768-1087.

\* The well-known enum attribute names, as ASCII bytes.
\* "printer-state"
PrinterStateName ==
    <<112, 114, 105, 110, 116, 101, 114, 45, 115, 116, 97, 116, 101>>
\* "job-state"
JobStateName ==
    <<106, 111, 98, 45, 115, 116, 97, 116, 101>>
\* "document-state"
DocumentStateName ==
    <<100, 111, 99, 117, 109, 101, 110, 116, 45, 115, 116, 97, 116, 101>>
\* "operations-supported"
OperationsSupportedName ==
    <<111, 112, 101, 114, 97, 116, 105, 111, 110, 115, 45, 115, 117, 112, 112, 111, 114, 116, 101, 100>>
\* "finishings"
FinishingsName ==
    <<102, 105, 110, 105, 115, 104, 105, 110, 103, 115>>
\* "orientation-requested"
OrientationRequestedName ==
    <<111, 114, 105, 101, 110, 116, 97, 116, 105, 111, 110, 45, 114, 101, 113, 117, 101, 115, 116, 101, 100>>
\* "media-feed-orientation"
MediaFeedOrientationName ==
    <<109, 101, 100, 105, 97, 45, 102, 101, 101, 100, 45, 111, 114, 105, 101, 110, 116, 97, 116, 105, 111, 110>>
\* "print-quality"
PrintQualityName ==
    <<112, 114, 105, 110, 116, 45, 113, 117, 97, 108, 105, 116, 121>>
\* "transmission-status"
TransmissionStatusName ==
    <<116, 114, 97, 110, 115, 109, 105, 115, 115, 105, 111, 110, 45, 115, 116, 97, 116, 117, 115>>

\* tvb_memeql(tvb, o, str, n) == 0: the n bytes at offset o are there and are
\* those of str.
tvb_memeql_equal(t, o, str) ==
    BytesExist(t, o, Len(str)) /\ tvb_get_ptr(t, o, Len(str)) = str

\* strcmp(nv, str) == 0, nv being the name up to its first NUL byte.
RECURSIVE CString(_)
CString(bytes) ==
    IF bytes = <<>> \/ Head(bytes) = 0
    THEN <<>>
    ELSE <<Head(bytes)>> \o CString(Tail(bytes))

strcmp_equal(nv, str) == CString(nv) = str

\* The same, with media-feed-orientation left out.
EnumRendering_OneOrientation(t, off, name_length) ==
    LET o == off + 1 + 2
    IN  CASE name_length > 5 /\ tvb_memeql_equal(t, o, PrinterStateName)
               -> "printer_state_vals"
          [] name_length > 5 /\ tvb_memeql_equal(t, o, JobStateName)
               -> "job_state_vals"
          [] name_length > 5 /\ tvb_memeql_equal(t, o, DocumentStateName)
               -> "document_state_vals"
          [] name_length > 5 /\ tvb_memeql_equal(t, o, OperationsSupportedName)
               -> "operation_vals"
          [] name_length > 5 /\ tvb_memeql_equal(t, o, FinishingsName)
               -> "finishings_vals"
          [] name_length > 5 /\ tvb_memeql_equal(t, o, OrientationRequestedName)
               -> "orientation_vals"
          [] name_length > 5 /\ tvb_memeql_equal(t, o, PrintQualityName)
               -> "quality_vals"
          [] name_length > 5 /\ tvb_memeql_equal(t, o, TransmissionStatusName)
               -> "transmission_status_vals"
          [] OTHER -> "number"

\* Lines 820-901: how add_integer_tree renders a 4-byte enum: by the table
\* whose name the bytes at the name's offset start with, or as a number.
EnumRendering(t, off, name_length) ==
    LET o == off + 1 + 2
    IN  CASE name_length > 5 /\ tvb_memeql_equal(t, o, PrinterStateName)
               -> "printer_state_vals"
          [] name_length > 5 /\ tvb_memeql_equal(t, o, JobStateName)
               -> "job_state_vals"
          [] name_length > 5 /\ tvb_memeql_equal(t, o, DocumentStateName)
               -> "document_state_vals"
          [] name_length > 5 /\ tvb_memeql_equal(t, o, OperationsSupportedName)
               -> "operation_vals"
          [] name_length > 5 /\ tvb_memeql_equal(t, o, FinishingsName)
               -> "finishings_vals"
          [] name_length > 5 /\ (\/ tvb_memeql_equal(t, o, OrientationRequestedName)
                                 \/ tvb_memeql_equal(t, o, MediaFeedOrientationName))
               -> "orientation_vals"
          [] name_length > 5 /\ tvb_memeql_equal(t, o, PrintQualityName)
               -> "quality_vals"
          [] name_length > 5 /\ tvb_memeql_equal(t, o, TransmissionStatusName)
               -> "transmission_status_vals"
          [] OTHER -> "number"

\* Lines 820-901: the text of a 4-byte enum.
EnumText(t, off, name_length, value) ==
    LET table == EnumRendering(t, off, name_length)
    IN  CASE table = "printer_state_vals" ->
               val_to_str_const(value, printer_state_vals, "Unknown Printer State")
          [] table = "job_state_vals" ->
               val_to_str_const(value, job_state_vals, "Unknown Job State")
          [] table = "document_state_vals" ->
               val_to_str_const(value, document_state_vals, "Unknown Document State")
          [] table = "operation_vals" ->
               val_to_str_const(value, operation_vals, "Unknown Operation ID")
          [] table = "finishings_vals" ->
               val_to_str_const(value, finishings_vals, "Unknown Finishings Value")
          [] table = "orientation_vals" ->
               val_to_str_const(value, orientation_vals, "Unknown Orientation Value")
          [] table = "quality_vals" ->
               val_to_str_const(value, quality_vals, "Unknown Print Quality")
          [] table = "transmission_status_vals" ->
               val_to_str_const(value, transmission_status_vals,
                                "Unknown Transmission Status")
          [] OTHER -> Decimal(Signed32(value))

\* Lines 768-914: the attribute item of an integer-class record.  The label
\* says which format the item's text was made with.
add_integer_tree(its, tree, t, off, name_length, value_length, tag) ==
    LET total == RecordLen(name_length, value_length)
        valoffset == off + 1 + 2 + name_length + 2
        name_ok == BytesExist(t, off + 1 + 2, name_length)
        attr(label, text) ==
            Added(its, AttrItem(tree, off, total, tag, label, text))
        invalid(kind, should) ==
            attr("Invalid " \o kind,
                 "Invalid " \o kind \o " (length is " \o Decimal(value_length)
                     \o ", should be " \o should \o ")")
    IN  CASE tag = TAG_BOOLEAN ->
               IF value_length # 1
               THEN IF name_ok THEN invalid("boolean", "1") ELSE Thrown(its)
               ELSE IF BytesExist(t, valoffset, 1) /\ name_ok
                    THEN attr("boolean",
                              IF tvb_get_guint8(t, valoffset) \in DOMAIN bool_vals
                              THEN bool_vals[tvb_get_guint8(t, valoffset)]
                              ELSE "Unknown (0x"
                                   \o Hex2(tvb_get_guint8(t, valoffset)) \o ")")
                    ELSE Thrown(its)
          [] tag = TAG_INTEGER ->
               IF value_length # 4
               THEN IF name_ok THEN invalid("integer", "4") ELSE Thrown(its)
               ELSE IF name_ok /\ BytesExist(t, valoffset, 4)
                    THEN attr("integer",
                              Decimal(Signed32(tvb_get_ntohl(t, valoffset))))
                    ELSE Thrown(its)
          [] tag = TAG_ENUM ->
               IF value_length # 4
               THEN IF name_ok THEN invalid("enum", "4") ELSE Thrown(its)
               ELSE IF name_ok /\ BytesExist(t, valoffset, 4)
                    THEN attr(EnumRendering(t, off, name_length),
                              EnumText(t, off, name_length,
                                       tvb_get_ntohl(t, valoffset)))
                    ELSE Thrown(its)
          [] OTHER ->
               IF name_ok
               THEN attr("Unknown integer type",
                         "Unknown integer type 0x" \o Hex2(tag))
               ELSE Thrown(its)

\* Lines 1067-1087: the tag, name length, name and value length items.
add_value_head(its, tree, t, off, name_length, value_length, tag) ==
    LET head == <<Item("tag", tree, off, 1, tag, TagDesc(tag)),
                  Item("name_length", tree, off + 1, 2, name_length, "")>>
        name == <<Item("name", tree, off + 1 + 2, name_length, 0, "")>>
        vlen == <<Item("value_length", tree, off + 1 + 2 + name_length, 2,
                       value_length, "")>>
    IN  IF name_length # 0
        THEN IF BytesExist(t, off + 1 + 2, name_length)
             THEN [items |-> its \o head \o name \o vlen, thrown |-> FALSE,
                   tree |-> tree]
             ELSE [items |-> its \o head, thrown |-> TRUE, tree |-> tree]
        ELSE [items |-> its \o head \o vlen, thrown |-> FALSE, tree |-> tree]

\* A value item of value_length bytes at the value's offset: it is added if
\* the bytes are in the buffer, and the call throws if they are not.
ValueItem(h, t, kind, off, name_length, value_length) ==
    LET valoffset == off + 1 + 2 + name_length + 2
    IN  IF BytesExist(t, valoffset, value_length)
        THEN [h EXCEPT !.items =
                 Append(h.items, Item(kind, h.tree, valoffset, value_length, 0, ""))]
        ELSE [h EXCEPT !.thrown = TRUE]

add_integer_value_AnyLength(its, tree, t, off, name_length, value_length, tag) ==
    LET h == add_value_head(its, tree, t, off, name_length, value_length, tag)
    IN  IF h.thrown
        THEN h
        ELSE CASE tag = TAG_BOOLEAN ->
                    ValueItem(h, t, "bool_value", off, name_length, value_length)
               [] tag \in {TAG_INTEGER, TAG_ENUM} ->
                    ValueItem(h, t, "uint32_value", off, name_length,
                              value_length)
               [] OTHER -> h

\* Lines 916-948.
add_integer_value(its, tree, t, off, name_length, value_length, tag) ==
    LET h == add_value_head(its, tree, t, off, name_length, value_length, tag)
        name_val == tvb_get_ptr(t, off + 1 + 2, name_length)
    IN  IF h.thrown
        THEN h
        ELSE CASE tag = TAG_BOOLEAN /\ value_length = 1 ->
                    ValueItem(h, t, "bool_value", off, name_length, value_length)
               [] tag \in {TAG_INTEGER, TAG_ENUM} /\ value_length = 4 ->
                    IF name_length > 5 /\ strcmp_equal(name_val, PrinterStateName)
                    THEN ValueItem(h, t, "printer_state", off, name_length,
                                   value_length)
                    ELSE IF name_length > 5 /\ strcmp_equal(name_val, JobStateName)
                    THEN ValueItem(h, t, "job_state", off, name_length,
                                   value_length)
                    ELSE ValueItem(h, t, "uint32_value", off, name_length,
                                   value_length)
               [] OTHER -> h

\* What a value is rendered as: the format used and the text made.
Rendering(label, text) == [label |-> label, text |-> text]
Throws == Rendering("throws", "")

\* The same, reading the day before the month.
DateTimeText_DayFirst(t, valoffset) ==
    LET year == tvb_get_ntohs(t, valoffset + 0)
        month == tvb_get_guint8(t, valoffset + 3)
        day == tvb_get_guint8(t, valoffset + 2)
        hours == tvb_get_guint8(t, valoffset + 4)
        minutes == tvb_get_guint8(t, valoffset + 5)
        seconds == tvb_get_guint8(t, valoffset + 6)
        decisecs == tvb_get_guint8(t, valoffset + 7)
        utcsign == tvb_get_guint8(t, valoffset + 8)
        utchours == tvb_get_guint8(t, valoffset + 9)
        utcminutes == tvb_get_guint8(t, valoffset + 10)
    IN  ZeroPad(Decimal(year), 4) \o "-" \o ZeroPad(Decimal(month), 2)
        \o "-" \o ZeroPad(Decimal(day), 2) \o "T"
        \o ZeroPad(Decimal(hours), 2) \o ":" \o ZeroPad(Decimal(minutes), 2)
        \o ":" \o ZeroPad(Decimal(seconds), 2) \o "." \o Decimal(decisecs)
        \o Chr(utcsign) \o ZeroPad(Decimal(utchours), 2)
        \o ZeroPad(Decimal(utcminutes), 2)

\* Lines 962-980: the text of an 11-byte dateTime.
DateTimeText(t, valoffset) ==
    LET year == tvb_get_ntohs(t, valoffset + 0)
        month == tvb_get_guint8(t, valoffset + 2)
        day == tvb_get_guint8(t, valoffset + 3)
        hours == tvb_get_guint8(t, valoffset + 4)
        minutes == tvb_get_guint8(t, valoffset + 5)
        seconds == tvb_get_guint8(t, valoffset + 6)
        decisecs == tvb_get_guint8(t, valoffset + 7)
        utcsign == tvb_get_guint8(t, valoffset + 8)
        utchours == tvb_get_guint8(t, valoffset + 9)
        utcminutes == tvb_get_guint8(t, valoffset + 10)
    IN  ZeroPad(Decimal(year), 4) \o "-" \o ZeroPad(Decimal(month), 2)
        \o "-" \o ZeroPad(Decimal(day), 2) \o "T"
        \o ZeroPad(Decimal(hours), 2) \o ":" \o ZeroPad(Decimal(minutes), 2)
        \o ":" \o ZeroPad(Decimal(seconds), 2) \o "." \o Decimal(decisecs)
        \o Chr(utcsign) \o ZeroPad(Decimal(utchours), 2)
        \o ZeroPad(Decimal(utcminutes), 2)

\* A suffix that does not look at the unit.
UnitSuffix_AlwaysDpi(units) == "dpi"

\* Line 989: the suffix of a resolution's unit.
UnitSuffix(units) ==
    IF units = 3 THEN "dpi" ELSE IF units = 4 THEN "dpcm" ELSE "unknown"

\* The two numbers of a resolution the other way round.
ResolutionText_Swapped(t, valoffset) ==
    LET xres == tvb_get_ntohl(t, valoffset + 0)
        yres == tvb_get_ntohl(t, valoffset + 4)
        units == tvb_get_guint8(t, valoffset + 8)
    IN  Decimal(Signed32(yres)) \o "x" \o Decimal(Signed32(xres))
        \o UnitSuffix(units)

\* Lines 982-993: the text of a 9-byte resolution, its numbers printed with %d.
ResolutionText(t, valoffset) ==
    LET xres == tvb_get_ntohl(t, valoffset + 0)
        yres == tvb_get_ntohl(t, valoffset + 4)
        units == tvb_get_guint8(t, valoffset + 8)
    IN  Decimal(Signed32(xres)) \o "x" \o Decimal(Signed32(yres))
        \o UnitSuffix(units)

\* Lines 995-1005: the text of an 8-byte rangeOfInteger, its two unsigned
\* numbers printed with %d.
RangeText(t, valoffset) ==
    LET lower == tvb_get_ntohl(t, valoffset + 0)
        upper == tvb_get_ntohl(t, valoffset + 4)
    IN  Decimal(Signed32(lower)) \o "-" \o Decimal(Signed32(upper))

\* The raw hex of a value, if its bytes are in the buffer.
HexRendering(t, valoffset, value_length) ==
    IF BytesExist(t, valoffset, value_length)
    THEN Rendering("hex", bytes_to_str(tvb_get_ptr(t, valoffset, value_length)))
    ELSE Throws

\* Lines 1007-1025: a text or name with language is rendered as text when
\* the two nested lengths can be read and lead to an offset of the buffer.
WithLanguageRendering(t, valoffset, value_length) ==
    IF value_length >= 4
    THEN IF ~BytesExist(t, valoffset, 2)
         THEN Throws
         ELSE LET language_length == tvb_get_ntohs(t, valoffset)
              IN  IF tvb_offset_exists(t, valoffset + 2 + language_length)
                  THEN IF ~BytesExist(t, valoffset + 2 + language_length, 2)
                       THEN Throws
                       ELSE LET string_length ==
                                    tvb_get_ntohs(t, valoffset + 2 + language_length)
                            IN  IF tvb_offset_exists(t, valoffset + 2
                                       + language_length + 2 + string_length)
                                THEN Rendering("text (language)",
                                        format_text(tvb_get_ptr(t,
                                            valoffset + 2 + language_length + 2,
                                            string_length))
                                        \o " ("
                                        \o format_text(tvb_get_ptr(t,
                                            valoffset + 2, language_length))
                                        \o ")")
                                ELSE HexRendering(t, valoffset, value_length)
                  ELSE HexRendering(t, valoffset, value_length)
    ELSE HexRendering(t, valoffset, value_length)

\* Lines 950-1033: the attribute item of an octet-string-class record.
add_octetstring_tree(its, tree, t, off, tag, name_length, value_length) ==
    LET total == RecordLen(name_length, value_length)
        valoffset == off + 1 + 2 + name_length + 2
        value_ok == BytesExist(t, valoffset, value_length)
        name_ok == BytesExist(t, off + 1 + 2, name_length)
        hex == HexRendering(t, valoffset, value_length)
        value ==
            CASE tag = TAG_OCTETSTRING ->
                   IF value_ok
                   THEN Rendering("text",
                            format_text(tvb_get_ptr(t, valoffset, value_length)))
                   ELSE Throws
              [] tag = TAG_DATETIME ->
                   IF value_length = 11
                   THEN IF value_ok
                        THEN Rendering("dateTime", DateTimeText(t, valoffset))
                        ELSE Throws
                   ELSE hex
              [] tag = TAG_RESOLUTION ->
                   IF value_length = 9
                   THEN IF value_ok
                        THEN Rendering("resolution", ResolutionText(t, valoffset))
                        ELSE Throws
                   ELSE hex
              [] tag = TAG_RANGEOFINTEGER ->
                   IF value_length = 8
                   THEN IF value_ok
                        THEN Rendering("rangeOfInteger", RangeText(t, valoffset))
                        ELSE Throws
                   ELSE hex
              [] tag \in {TAG_TEXTWITHLANGUAGE, TAG_NAMEWITHLANGUAGE} ->
                   WithLanguageRendering(t, valoffset, value_length)
              [] OTHER -> hex
    IN  IF value.label = "throws" \/ ~name_ok
        THEN Thrown(its)
        ELSE Added(its, AttrItem(tree, off, total, tag, value.label, value.text))

\* Lines 1035-1042.
add_octetstring_value(its, tree, t, off, name_length, value_length, tag) ==
    LET h == add_value_head(its, tree, t, off, name_length, value_length, tag)
    IN  IF h.thrown
        THEN h
        ELSE ValueItem(h, t, "bytes_value", off, name_length, value_length)

\* Lines 1044-1053.
add_charstring_tree(its, tree, t, off, tag, name_length, value_length) ==
    IF /\ BytesExist(t, off + 1 + 2, name_length)
       /\ BytesExist(t, off + 1 + 2 + name_length + 2, value_length)
    THEN Added(its, AttrItem(tree, off, RecordLen(name_length, value_length),
                             tag, "text",
                             format_text(tvb_get_ptr(t,
                                 off + 1 + 2 + name_length + 2, value_length))))
    ELSE Thrown(its)

\* Lines 1055-1062.
add_charstring_value(its, tree, t, off, name_length, value_length, tag) ==
    LET h == add_value_head(its, tree, t, off, name_length, value_length, tag)
    IN  IF h.thrown
        THEN h
        ELSE ValueItem(h, t, "charstring_value", off, name_length, value_length)

----------------------------------------------------------------------------
\* parse_attributes, lines 632-760, on its locals
\* st = [offset, start_offset, as_tree, attr_tree, tas, subtree, items].

ParseEntry_NoTree(off) ==
    [offset |-> off, start_offset |-> off, as_tree |-> Null,
     attr_tree |-> Root, tas |-> Null, subtree |-> Null, items |-> <<>>]

\* Lines 638-642: the locals on entry, offset being the end of the header.
ParseEntry(off) ==
    [offset |-> off, start_offset |-> off, as_tree |-> Root,
     attr_tree |-> Root, tas |-> Null, subtree |-> Null, items |-> <<>>]

SetSequenceLen_IncludesNext(its, seq, len) ==
    IF seq # Null THEN [its EXCEPT ![seq].len = len + 1] ELSE its

\* Lines 654-655: proto_item_set_len on the attribute sequence under way.
SetSequenceLen(its, seq, len) ==
    IF seq # Null THEN [its EXCEPT ![seq].len = len] ELSE its

\* Line 676: the item of a delimiter tag, one byte long, under the root.
DelimiterItem(off, tag) == Item("group", Root, off, 1, tag, TagDesc(tag))

DelimiterRecord_ReplacesEmpty(st, tag) ==
    LET closed == SetSequenceLen(st.items, st.tas, st.offset - st.start_offset)
    IN  IF st.tas # Null /\ st.offset - st.start_offset = 1
        THEN [st EXCEPT !.offset = st.offset + 1,
                        !.start_offset = st.offset,
                        !.as_tree = Null,
                        !.attr_tree = Root,
                        !.items = [st.items EXCEPT
                                      ![st.tas] = DelimiterItem(st.offset, tag)]]
        ELSE [offset       |-> st.offset + 1,
              start_offset |-> st.offset,
              as_tree      |-> Null,
              attr_tree    |-> Root,
              tas          |-> Len(closed) + 1,
              subtree      |-> Len(closed) + 1,
              items        |-> Append(closed, DelimiterItem(st.offset, tag))]

\* The same, without the reset of as_tree and attr_tree at lines 663-664.
DelimiterRecord_KeepsAttribute(st, tag) ==
    LET closed == SetSequenceLen(st.items, st.tas, st.offset - st.start_offset)
    IN  [offset       |-> st.offset + 1,
         start_offset |-> st.offset,
         as_tree      |-> st.as_tree,
         attr_tree    |-> st.attr_tree,
         tas          |-> Len(closed) + 1,
         subtree      |-> Len(closed) + 1,
         items        |-> Append(closed, DelimiterItem(st.offset, tag))]

\* Lines 647-683: a delimiter tag closes the sequence under way and opens one.
DelimiterRecord(st, tag) ==
    LET closed == SetSequenceLen(st.items, st.tas, st.offset - st.start_offset)
    IN  [offset       |-> st.offset + 1,
         start_offset |-> st.offset,
         as_tree      |-> Null,
         attr_tree    |-> Root,
         tas          |-> Len(closed) + 1,
         subtree      |-> Len(closed) + 1,
         items        |-> Append(closed, DelimiterItem(st.offset, tag))]

StartsAttribute_Always(name_length) == TRUE

\* Lines 713, 728, 741: a record with a name starts an attribute.
StartsAttribute(name_length) == name_length # 0

NextOffset_NoLengthFields(off, name_length, value_length) ==
    off + 1 + name_length + value_length

NextOffset_NoFixedPart(off, name_length, value_length) ==
    off + name_length + value_length

\* Line 755: the offset of the next record.
NextOffset(off, name_length, value_length) ==
    off + 1 + 2 + name_length + 2 + value_length

\* The same, with a record of any other class decoded as an octet string.
AddRecord_DecodesAll(its, as, attr, t, off, name_length, value_length, tag) ==
    LET class == TAG_TYPE(tag)
        same == [items |-> its, thrown |-> FALSE, tree |-> attr]
        opened ==
            IF StartsAttribute(name_length)
            THEN CASE class = TAG_TYPE_INTEGER ->
                        add_integer_tree(its, as, t, off, name_length,
                                         value_length, tag)
                   [] class = TAG_TYPE_OCTETSTRING ->
                        add_octetstring_tree(its, as, t, off, tag, name_length,
                                             value_length)
                   [] class = TAG_TYPE_CHARSTRING ->
                        add_charstring_tree(its, as, t, off, tag, name_length,
                                            value_length)
                   [] OTHER ->
                        add_octetstring_tree(its, as, t, off, tag, name_length,
                                             value_length)
            ELSE same
    IN  IF opened.thrown
        THEN opened
        ELSE CASE class = TAG_TYPE_INTEGER ->
                    add_integer_value(opened.items, opened.tree, t, off,
                                      name_length, value_length, tag)
               [] class = TAG_TYPE_OCTETSTRING ->
                    add_octetstring_value(opened.items, opened.tree, t, off,
                                          name_length, value_length, tag)
               [] class = TAG_TYPE_CHARSTRING ->
                    add_charstring_value(opened.items, opened.tree, t, off,
                                         name_length, value_length, tag)
               [] OTHER ->
                    add_octetstring_value(opened.items, opened.tree, t, off,
                                          name_length, value_length, tag)

\* Lines 710-754: the attribute and value items of a record, by tag class.
\* A class without a case adds nothing.
AddRecord(its, as, attr, t, off, name_length, value_length, tag) ==
    LET class == TAG_TYPE(tag)
        same == [items |-> its, thrown |-> FALSE, tree |-> attr]
        opened ==
            IF StartsAttribute(name_length)
            THEN CASE class = TAG_TYPE_INTEGER ->
                        add_integer_tree(its, as, t, off, name_length,
                                         value_length, tag)
                   [] class = TAG_TYPE_OCTETSTRING ->
                        add_octetstring_tree(its, as, t, off, tag, name_length,
                                             value_length)
                   [] class = TAG_TYPE_CHARSTRING ->
                        add_charstring_tree(its, as, t, off, tag, name_length,
                                            value_length)
                   [] OTHER -> same
            ELSE same
    IN  IF opened.thrown
        THEN opened
        ELSE CASE class = TAG_TYPE_INTEGER ->
                    add_integer_value(opened.items, opened.tree, t, off,
                                      name_length, value_length, tag)
               [] class = TAG_TYPE_OCTETSTRING ->
                    add_octetstring_value(opened.items, opened.tree, t, off,
                                          name_length, value_length, tag)
               [] class = TAG_TYPE_CHARSTRING ->
                    add_charstring_value(opened.items, opened.tree, t, off,
                                         name_length, value_length, tag)
               [] OTHER -> opened

\* Lines 684-756: a value tag.  The result is the locals and whether a read
\* past the end of the buffer threw.
ValueRecord(t, st, tag) ==
    IF ~BytesExist(t, st.offset + 1, 2)
    THEN [st |-> st, thrown |-> TRUE]
    ELSE
    LET name_length == tvb_get_ntohs(t, st.offset + 1)
    IN  IF ~BytesExist(t, st.offset + 1 + 2 + name_length, 2)
        THEN [st |-> st, thrown |-> TRUE]
        ELSE
        LET value_length == tvb_get_ntohs(t, st.offset + 1 + 2 + name_length)
            as   == IF st.as_tree = Null THEN st.subtree ELSE st.as_tree
            attr == IF st.as_tree = Null THEN st.subtree ELSE st.attr_tree
            r    == AddRecord(st.items, as, attr, t, st.offset, name_length,
                              value_length, tag)
        IN  [st |-> [st EXCEPT
                        !.as_tree = as,
                        !.attr_tree = IF r.thrown THEN attr ELSE r.tree,
                        !.items = r.items,
                        !.offset = IF r.thrown THEN st.offset
                                   ELSE NextOffset(st.offset, name_length,
                                                   value_length)],
             thrown |-> r.thrown]

TrailingData_SkipsByte(t, off) ==
    IF tvb_offset_exists(t, off + 1)
    THEN tvb_new_subset_remaining(t, off + 1)
    ELSE <<>>

\* Lines 551-553: what the data dissector is called with, if it is called.
TrailingData(t, off) ==
    IF tvb_offset_exists(t, off)
    THEN tvb_new_subset_remaining(t, off)
    ELSE <<>>

----------------------------------------------------------------------------
\* The attribute parse as a state machine: one step per loop iteration.

Locals ==
    [offset |-> offset, start_offset |-> start_offset, as_tree |-> as_tree,
     attr_tree |-> attr_tree, tas |-> tas, subtree |-> subtree,
     items |-> items]

SetLocals(st) ==
    /\ offset' = st.offset
    /\ start_offset' = st.start_offset
    /\ as_tree' = st.as_tree
    /\ attr_tree' = st.attr_tree
    /\ tas' = st.tas
    /\ subtree' = st.subtree
    /\ items' = st.items

\* Lines 638-642 on entry from line 549.
SetLocalsInit ==
    LET st == ParseEntry(HeaderLen)
    IN  /\ offset = st.offset
        /\ start_offset = st.start_offset
        /\ as_tree = st.as_tree
        /\ attr_tree = st.attr_tree
        /\ tas = st.tas
        /\ subtree = st.subtree
        /\ items = st.items

\* Lines 644-683: the byte at the offset is a delimiter tag.
ParseDelimiter ==
    /\ pc = "loop"
    /\ tvb_offset_exists(tvb, offset)
    /\ \E tag \in {tvb_get_guint8(tvb, offset)} :
          /\ TAG_TYPE(tag) = TAG_TYPE_DELIMITER
          /\ \E st \in {DelimiterRecord(Locals, tag)} : SetLocals(st)
          /\ pc' = IF tag = TAG_END_OF_ATTRIBUTES THEN "return" ELSE "loop"
    /\ UNCHANGED <<tvb, data>>
    /\ UNCHANGED vars

\* Lines 644-646 and 684-756: the byte at the offset is a value tag.
ParseValue ==
    /\ pc = "loop"
    /\ tvb_offset_exists(tvb, offset)
    /\ \E tag \in {tvb_get_guint8(tvb, offset)} :
          /\ TAG_TYPE(tag) # TAG_TYPE_DELIMITER
          /\ \E r \in {ValueRecord(tvb, Locals, tag)} :
                /\ SetLocals(r.st)
                /\ pc' = IF r.thrown THEN "exception" ELSE "loop"
    /\ UNCHANGED <<tvb, data>>
    /\ UNCHANGED vars

\* Lines 644 and 759: no byte at the offset, the loop ends.
ParseEnd ==
    /\ pc = "loop"
    /\ ~tvb_offset_exists(tvb, offset)
    /\ pc' = "return"
    /\ UNCHANGED <<tvb, offset, start_offset, as_tree, attr_tree, tas, subtree,
                   items, data>>
    /\ UNCHANGED vars

\* Lines 549-554: parse_attributes has returned its offset to dissect_ipp.
Trailing ==
    /\ pc = "return"
    /\ data' = TrailingData(tvb, offset)
    /\ pc' = "done"
    /\ UNCHANGED <<tvb, offset, start_offset, as_tree, attr_tree, tas, subtree,
                   items>>
    /\ UNCHANGED vars

NextParse == ParseDelimiter \/ ParseValue \/ ParseEnd \/ Trailing

----------------------------------------------------------------------------
\* The buffers the parse is run on: a header, then records, cut anywhere.

\* The records of a structural message, and the value lengths of a typed one.
MaxRecords == 3
MaxValueLen == 11

\* A request header: version 1.1, operation 2, request id 1.
Header == <<1, 1, 0, 2, 0, 0, 0, 1>>

\* The bytes of a value record; lengths are below 256.
ValueBytes(tag, name, value) ==
    <<tag, 0, Len(name)>> \o name \o <<0, Len(value)>> \o value

\* Delimiters, and value records of an out-of-band, an integer and a
\* character-string tag, with and without a name; the name and the value are
\* the byte 3, the value of the end-of-attributes tag.
Records ==
    {<<1>>, <<2>>, <<TAG_END_OF_ATTRIBUTES>>}
    \cup {ValueBytes(tag, name, <<3>>) :
             tag \in {16, TAG_INTEGER, 65}, name \in {<<>>, <<3>>}}

RECURSIVE Flatten(_)
Flatten(rs) == IF rs = <<>> THEN <<>> ELSE Head(rs) \o Flatten(Tail(rs))

\* The messages of up to max records.
MessagesOf(max) ==
    {Header \o Flatten(rs) :
        rs \in UNION {[1..n -> Records] : n \in 0..max}}

StructuralMessages == MessagesOf(MaxRecords)

\* A group holding one named record of a fixed-size kind, of any value
\* length, then nothing, the end of the attributes, or a nameless integer
\* and the end of the attributes.
TypedTags ==
    {TAG_INTEGER, TAG_BOOLEAN, TAG_ENUM, TAG_DATETIME, TAG_RESOLUTION,
     TAG_RANGEOFINTEGER}

TypedMessages ==
    {Header \o <<1>> \o ValueBytes(tag, <<110>>, [i \in 1..n |-> 1]) \o rest :
        tag \in TypedTags, n \in 0..MaxValueLen,
        rest \in {<<>>, <<TAG_END_OF_ATTRIBUTES>>,
                  ValueBytes(TAG_INTEGER, <<>>, <<0, 0, 0, 7>>)
                      \o <<TAG_END_OF_ATTRIBUTES>>}}

Prefixes(ms) == UNION {{SubSeq(m, 1, n) : n \in HeaderLen..Len(m)} : m \in ms}

\* A message of one group holding one named record, then the end of the
\* attributes.
OneRecord(tag, name, value) ==
    Header \o <<1>> \o ValueBytes(tag, name, value)
        \o <<TAG_END_OF_ATTRIBUTES>>

\* The nine names add_integer_tree knows.
WellKnownNames ==
    {PrinterStateName, JobStateName, DocumentStateName,
     OperationsSupportedName, FinishingsName, OrientationRequestedName,
     MediaFeedOrientationName, PrintQualityName, TransmissionStatusName}

\* Enums of the values 0..MaxEnumValue and of -5, under the well-known names
\* and under "job-states", "copies", "state" and "n".
MaxEnumValue == 10

EnumNames ==
    WellKnownNames
    \cup {JobStateName \o <<115>>, <<99, 111, 112, 105, 101, 115>>,
          <<115, 116, 97, 116, 101>>, <<110>>}

EnumMessages ==
    {OneRecord(TAG_ENUM, name, value) :
        name \in EnumNames,
        value \in {<<0, 0, 0, v>> : v \in 0..MaxEnumValue}
                  \cup {<<255, 255, 255, 251>>}}

\* The four big-endian bytes of a number from 0 to 2^31 - 1.
Bytes32(n) ==
    <<n \div 16777216, (n \div 65536) % 256, (n \div 256) % 256, n % 256>>

\* Resolutions of 300, 600 and -1 by 300 and 600, of the units 0..MaxUnit.
MaxUnit == 5

ResolutionMessages ==
    {OneRecord(TAG_RESOLUTION, <<110>>, x \o y \o <<units>>) :
        x \in {Bytes32(300), Bytes32(600), <<255, 255, 255, 255>>},
        y \in {Bytes32(300), Bytes32(600)},
        units \in 0..MaxUnit}

\* Ranges between 0, 5, 2^31 and 2^32 - 1.
RangeMessages ==
    {OneRecord(TAG_RANGEOFINTEGER, <<110>>, lower \o upper) :
        lower, upper \in {Bytes32(0), Bytes32(5), <<128, 0, 0, 0>>,
                          <<255, 255, 255, 255>>}}

\* Texts and names with language: the language "en" and the text "hi"
\* behind length fields that say 0..MaxNested each, or a value of two bytes;
\* then nothing, the end of the attributes, or that and three bytes more.
MaxNested == 6

WithLanguageMessages ==
    {Header \o <<1>> \o ValueBytes(tag, <<110>>, value) \o rest :
        tag \in {TAG_TEXTWITHLANGUAGE, TAG_NAMEWITHLANGUAGE},
        value \in {<<0, ll, 101, 110, 0, sl, 104, 105>> :
                      ll, sl \in 0..MaxNested} \cup {<<0, 0>>},
        rest \in {<<>>, <<TAG_END_OF_ATTRIBUTES>>,
                  <<TAG_END_OF_ATTRIBUTES, 1, 2, 3>>}}

\* Dates and times: 15 March or 31 December of the years 5, 1999 and 2024,
\* at 12:30:00.0 or 23:59:59.9, east or west of UTC by 0:00 or 5:30.
DateTimeMessages ==
    {OneRecord(TAG_DATETIME, <<110>>,
               <<year \div 256, year % 256>> \o date \o time
                   \o <<utcsign>> \o utc) :
        year \in {5, 1999, 2024}, date \in {<<3, 15>>, <<12, 31>>},
        time \in {<<12, 30, 0, 0>>, <<23, 59, 59, 9>>},
        utcsign \in {43, 45}, utc \in {<<0, 0>>, <<5, 30>>}}

\* A record of every tag: the tag alone if it is a delimiter, else the tag,
\* the name "n" and a value of the one byte 1; then the end of the attributes.
AllTagMessages ==
    {Header
        \o (IF TAG_TYPE(tag) = TAG_TYPE_DELIMITER THEN <<tag>>
            ELSE ValueBytes(tag, <<110>>, <<1>>))
        \o <<TAG_END_OF_ATTRIBUTES>> : tag \in 0..255}

\* A group holding a named integer, then a second group that begins with a
\* nameless record of one value byte.
SecondGroupMessages ==
    {Header \o <<1>> \o ValueBytes(TAG_INTEGER, <<110>>, <<0, 0, 0, 7>>)
        \o <<2>> \o ValueBytes(tag, <<>>, <<1>>) \o <<TAG_END_OF_ATTRIBUTES>> :
        tag \in {16, TAG_INTEGER, TAG_BOOLEAN, TAG_OCTETSTRING, 65}}

DecodedMessages ==
    EnumMessages \cup ResolutionMessages \cup RangeMessages
        \cup WithLanguageMessages \cup DateTimeMessages \cup AllTagMessages
        \cup SecondGroupMessages

Buffers == Prefixes(StructuralMessages \cup TypedMessages) \cup DecodedMessages

\* dissect_ipp has read the header and calls parse_attributes at line 549.
InitParse ==
    /\ NoCapture
    /\ tvb \in Buffers
    /\ SetLocalsInit
    /\ data = <<>>
    /\ pc = "loop"

SpecParse == InitParse /\ [][NextParse]_<<vars, pvars>>

\* The same parse on the messages of up to MaxFairRecords records, cut
\* anywhere.  The dissector runs to its end once called: no step of it waits
\* on anything.
MaxFairRecords == 2

InitParseFair ==
    /\ NoCapture
    /\ tvb \in Prefixes(MessagesOf(MaxFairRecords))
    /\ SetLocalsInit
    /\ data = <<>>
    /\ pc = "loop"

SpecParseFair ==
    /\ InitParseFair
    /\ [][NextParse]_<<vars, pvars>>
    /\ WF_<<vars, pvars>>(NextParse)


----------------------------------------------------------------------------
\* What the properties below speak about.

\* The frame the last call dissected (there is one once pinfo.num > 0).
Called == pinfo.num > 0
Frame == frames[pinfo.num]

\* The pdus map of a conversation.
Pdus(c) == ipp_info[c].pdus

Max(S) == CHOOSE x \in S : \A y \in S : y <= x

\* The requests of the conversation and id of frame n that come before it.
PrecedingRequests(n) ==
    {m \in 1..(n - 1) : /\ frames[m].is_request
                        /\ HeaderReadable(frames[m])
                        /\ frames[m].conv = frames[n].conv
                        /\ frames[m].request_id = frames[n].request_id}

\* A step that is the first visit of a new frame; NewFrame is that frame.
FirstVisitStep == Len(frames') = Len(frames) + 1
NewFrame == frames'[Len(frames')]

----------------------------------------------------------------------------
\* C1: after the first visit of a request with id r in conversation c, the
\* store maps r to {req_frame = this frame, rep_frame = 0, req_time = this
\* frame's timestamp}, whatever it mapped r to before.
C1_RequestRecorded ==
    (Called /\ ~pinfo.visited /\ Frame.is_request /\ HeaderReadable(Frame)) =>
        /\ Frame.request_id \in DOMAIN Pdus(Frame.conv)
        /\ Pdus(Frame.conv)[Frame.request_id] =
               [req_frame |-> pinfo.num, rep_frame |-> 0,
                req_time |-> Frame.abs_ts]

\* A request, its response, then a later request that reuses the id at a
\* later time: the recorded response frame is gone.
C1_Witness ==
    /\ Len(frames) = 3 /\ pinfo = [num |-> 3, visited |-> FALSE]
    /\ frames[1].is_request /\ ~frames[2].is_request /\ frames[3].is_request
    /\ frames[1].request_id = 1 /\ frames[2].request_id = 1
    /\ frames[3].request_id = 1
    /\ frames[1].abs_ts < frames[3].abs_ts
    /\ Pdus("A")[1] = [req_frame |-> 3, rep_frame |-> 0, req_time |-> 1]

\* C2: the first visit of a response whose id has a transaction sets that
\* transaction's rep_frame to this frame and changes nothing else in any
\* store; the items reported come from that transaction.
C2_ResponseRecorded ==
    [][(/\ FirstVisitStep
        /\ ~NewFrame.is_request
        /\ HeaderReadable(NewFrame)
        /\ NewFrame.request_id \in DOMAIN Pdus(NewFrame.conv))
       => LET c == NewFrame.conv
              r == NewFrame.request_id
              old == Pdus(c)[r]
          IN  /\ ipp_info' = [ipp_info EXCEPT
                                 ![c].pdus[r].rep_frame = Len(frames')]
              /\ ipp_tree'.response_to = <<old.req_frame>>
              /\ ipp_tree'.response_time = <<NewFrame.abs_ts - old.req_time>>
      ]_vars

\* A response has completed the transaction of id 1 while the store also
\* holds a transaction for id 2.
C2_Witness ==
    /\ Called /\ ~pinfo.visited /\ ~Frame.is_request
    /\ Frame.request_id = 1
    /\ DOMAIN Pdus("A") = {1, 2}
    /\ Pdus("A")[1].rep_frame = pinfo.num
    /\ Pdus("A")[1].req_frame \in 1..(pinfo.num - 1)
    /\ ipp_tree.response_to = <<Pdus("A")[1].req_frame>>

\* C3: the first visit of a response whose id has no transaction leaves
\* every store as it was (no entry is created), reports neither a request
\* frame nor a response time, ends without an error and goes on to the header.
C3_UnmatchedResponse ==
    [][(/\ FirstVisitStep
        /\ ~NewFrame.is_request
        /\ HeaderReadable(NewFrame)
        /\ NewFrame.request_id \notin DOMAIN Pdus(NewFrame.conv))
       => /\ \A c \in Conversations : ipp_info'[c].pdus = ipp_info[c].pdus
          /\ \A c \in Conversations \ {NewFrame.conv} :
                 ipp_info'[c] = ipp_info[c]
          /\ ipp_tree'.response_to = <<>>
          /\ ipp_tree'.response_time = <<>>
          /\ result' = "ok"
          /\ ipp_tree'.request_id = <<NewFrame.request_id>>
      ]_vars

\* A response with id 2 was first-visited while the store knew only id 1.
C3_Witness ==
    /\ Called /\ ~pinfo.visited /\ ~Frame.is_request
    /\ Frame.request_id = 2
    /\ DOMAIN Pdus("A") = {1}
    /\ result = "ok"
    /\ ipp_tree.response_to = <<>>

\* C4: a call on a frame already visited changes no conversation's store.
C4_RevisitReadsOnly ==
    [][(frames' = frames) => (ipp_info' = ipp_info)]_vars

\* A request whose transaction has been completed is dissected again: a
\* first-visit treatment would erase the response frame.
C4_Witness ==
    /\ Called /\ pinfo.visited /\ Frame.is_request
    /\ Frame.request_id \in DOMAIN Pdus(Frame.conv)
    /\ Pdus(Frame.conv)[Frame.request_id].req_frame = pinfo.num
    /\ Pdus(Frame.conv)[Frame.request_id].rep_frame > pinfo.num
    /\ ipp_tree.response_in = <<Pdus(Frame.conv)[Frame.request_id].rep_frame>>

\* C5: a response first-visited after several requests with its id is
\* reported against the latest of them, frame and time.
C5_LatestRequestWins ==
    (/\ Called /\ ~pinfo.visited /\ ~Frame.is_request
     /\ HeaderReadable(Frame)
     /\ Cardinality(PrecedingRequests(pinfo.num)) >= 2)
    => LET last == Max(PrecedingRequests(pinfo.num))
       IN  /\ ipp_tree.response_to = <<last>>
           /\ ipp_tree.response_time = <<Frame.abs_ts - frames[last].abs_ts>>

\* Two requests with id 1 at different times, then the response.
C5_Witness ==
    /\ Len(frames) = 3 /\ pinfo = [num |-> 3, visited |-> FALSE]
    /\ frames[1].is_request /\ frames[2].is_request /\ ~frames[3].is_request
    /\ frames[1].request_id = 1 /\ frames[2].request_id = 1
    /\ frames[3].request_id = 1
    /\ frames[1].abs_ts = 0 /\ frames[2].abs_ts = 1
    /\ ipp_tree.response_to = <<2>>
    /\ ipp_tree.response_time = <<0>>

\* C6: whenever a response is dissected, on its first visit or later, the
\* request frame reported is the nearest request with its id that precedes
\* it in the conversation (and none is reported when there is none).
C6_NearestPreceding ==
    (Called /\ ~Frame.is_request /\ HeaderReadable(Frame)) =>
        ipp_tree.response_to =
            IF PrecedingRequests(pinfo.num) = {}
            THEN <<>>
            ELSE <<Max(PrecedingRequests(pinfo.num))>>

\* C7: with transactions for two distinct ids in the store, the first visit
\* of a response is reported against a request that carries its own id, and
\* leaves the transaction of the other id as it was.
C7_DistinctIds ==
    [][(/\ FirstVisitStep
        /\ ~NewFrame.is_request
        /\ HeaderReadable(NewFrame)
        /\ NewFrame.request_id \in DOMAIN Pdus(NewFrame.conv))
       => LET c == NewFrame.conv
              r == NewFrame.request_id
          IN  /\ \A o \in (DOMAIN Pdus(c)) \ {r} :
                     /\ o \in DOMAIN ipp_info'[c].pdus
                     /\ ipp_info'[c].pdus[o] = Pdus(c)[o]
              /\ Len(ipp_tree'.response_to) = 1
              /\ LET q == ipp_tree'.response_to[1]
                 IN  /\ q \in 1..Len(frames)
                     /\ frames[q].is_request
                     /\ frames[q].conv = c
                     /\ frames[q].request_id = r
      ]_vars

\* Requests 1 and 2 were in flight together and were answered in the
\* opposite order: 2 first, then 1.
C7_Witness ==
    /\ Len(frames) = 4 /\ pinfo = [num |-> 4, visited |-> FALSE]
    /\ frames[1].is_request /\ frames[1].request_id = 1
    /\ frames[2].is_request /\ frames[2].request_id = 2
    /\ ~frames[3].is_request /\ frames[3].request_id = 2
    /\ ~frames[4].is_request /\ frames[4].request_id = 1
    /\ Pdus("A")[1].req_frame = 1 /\ Pdus("A")[1].rep_frame = 4
    /\ Pdus("A")[2].req_frame = 2 /\ Pdus("A")[2].rep_frame = 3
    /\ ipp_tree.response_to = <<1>>

\* C8: a key of a conversation's store is a key of it after every call.
C8_NeverDeleted ==
    [][\A c \in Conversations :
           (DOMAIN ipp_info[c].pdus) \subseteq (DOMAIN ipp_info'[c].pdus)]_vars

\* Four frames later the store still holds the transaction that frame 1
\* opened, completed meanwhile, next to one of the other id; the last call
\* was a re-visit.
C8_Witness ==
    /\ Len(frames) = 4 /\ pinfo.visited
    /\ DOMAIN Pdus("A") = {1, 2}
    /\ Pdus("A")[2].req_frame = 1
    /\ Pdus("A")[2].rep_frame # 0

\* C9: a conversation's store exists exactly when a message of it has been
\* dissected, it starts empty and keeps its keys; a call on a message of one
\* conversation leaves the proto data of every other conversation as it was,
\* and the frames it reports belong to its own conversation.
C9_Step ==
    (pinfo'.num > 0 /\ HeaderReadable(frames'[pinfo'.num]) /\ vars' # vars) =>
        LET c == frames'[pinfo'.num].conv
        IN  /\ \A b \in Conversations \ {c} : ipp_info'[b] = ipp_info[b]
            /\ ipp_info'[c].present
            /\ (DOMAIN ipp_info[c].pdus) \subseteq (DOMAIN ipp_info'[c].pdus)
            /\ ~ipp_info[c].present =>
                   (DOMAIN ipp_info'[c].pdus) \subseteq
                       (IF frames'[pinfo'.num].is_request
                        THEN {frames'[pinfo'.num].request_id} ELSE {})
            /\ \A q \in 1..Len(frames') :
                   (ipp_tree'.response_to = <<q>> \/ ipp_tree'.response_in = <<q>>)
                       => frames'[q].conv = c

C9_StoreExists ==
    \A c \in Conversations :
        /\ ipp_info[c].present <=>
               \E n \in 1..Len(frames) :
                   frames[n].conv = c /\ HeaderReadable(frames[n])
        /\ ~ipp_info[c].present => ipp_info[c].pdus = wmem_map_new

C9_PerConversation == [](C9_StoreExists) /\ [][C9_Step]_vars

\* The same id is pending in A and in B; a response in B was matched to B's
\* request and A's transaction is still without a response.
C9_Witness ==
    /\ Len(frames) = 3 /\ pinfo = [num |-> 3, visited |-> FALSE]
    /\ frames[1].conv = "A" /\ frames[1].is_request /\ frames[1].request_id = 1
    /\ frames[2].conv = "B" /\ frames[2].is_request /\ frames[2].request_id = 1
    /\ frames[3].conv = "B" /\ ~frames[3].is_request /\ frames[3].request_id = 1
    /\ ipp_tree.response_to = <<2>>
    /\ Pdus("A")[1] = [req_frame |-> 1, rep_frame |-> 0,
                       req_time |-> frames[1].abs_ts]
    /\ Pdus("B")[1].rep_frame = 3

\* C10: a dissected response reports as response time its own timestamp
\* minus the req_time of the transaction its id maps to, and reports no
\* response time when its id maps to no transaction.
C10_ResponseTime ==
    (Called /\ ~Frame.is_request /\ HeaderReadable(Frame)) =>
        LET t == wmem_map_lookup(Pdus(Frame.conv), Frame.request_id)
        IN  IF t # <<>> /\ t[1].req_frame # 0
            THEN ipp_tree.response_time = <<Frame.abs_ts - t[1].req_time>>
            ELSE ipp_tree.response_time = <<>>

\* A response one time unit after its request.
C10_Witness ==
    /\ Called /\ ~Frame.is_request
    /\ Frame.request_id \in DOMAIN Pdus(Frame.conv)
    /\ Frame.abs_ts = 1
    /\ Pdus(Frame.conv)[Frame.request_id].req_time = 0
    /\ ipp_tree.response_time = <<1>>

----------------------------------------------------------------------------
\* What the properties of the attribute parse speak about.

Returned == pc \in {"return", "done"}

\* The records of a buffer read by the wire format alone: at offset o stands
\* a delimiter of one byte, or a value record of a tag, a two-byte name
\* length, the name, a two-byte value length and the value.
IsDelimiterAt(t, o) == tvb_get_guint8(t, o) < 16

CompleteValueAt(t, o) ==
    /\ BytesExist(t, o + 1, 2)
    /\ BytesExist(t, o + 3 + tvb_get_ntohs(t, o + 1), 2)
    /\ BytesExist(t, o + 5 + tvb_get_ntohs(t, o + 1),
                  tvb_get_ntohs(t, o + 3 + tvb_get_ntohs(t, o + 1)))

ValueLenAt(t, o) ==
    5 + tvb_get_ntohs(t, o + 1)
      + tvb_get_ntohs(t, o + 3 + tvb_get_ntohs(t, o + 1))

\* The lengths of the records from o up to and including the first
\* end-of-attributes delimiter, for a buffer that is well formed from o.
RECURSIVE RecordLengths(_, _)
RecordLengths(t, o) ==
    IF IsDelimiterAt(t, o)
    THEN IF tvb_get_guint8(t, o) = 3
         THEN <<1>>
         ELSE <<1>> \o RecordLengths(t, o + 1)
    ELSE <<ValueLenAt(t, o)>> \o RecordLengths(t, o + ValueLenAt(t, o))

\* Complete records from o, up to an end-of-attributes delimiter.
RECURSIVE WellFormedFrom(_, _)
WellFormedFrom(t, o) ==
    /\ tvb_offset_exists(t, o)
    /\ IF IsDelimiterAt(t, o)
       THEN tvb_get_guint8(t, o) = 3 \/ WellFormedFrom(t, o + 1)
       ELSE CompleteValueAt(t, o) /\ WellFormedFrom(t, o + ValueLenAt(t, o))

WellFormed(t) == WellFormedFrom(t, HeaderLen)

RECURSIVE Sum(_)
Sum(ns) == IF ns = <<>> THEN 0 ELSE Head(ns) + Sum(Tail(ns))

----------------------------------------------------------------------------
----------------------------------------------------------------------------
\* The data dissector was called if it was handed bytes.
DataCalled == data # <<>>

\* The parse left its loop at an end-of-attributes delimiter: the last group
\* item is that delimiter's.
EndedAtEnd == tas # Null /\ items[tas].val = 3

\* C12: once the parse has returned offset o, the data dissector is called
\* if and only if the buffer has a byte at o, and it is handed the bytes
\* from o to the end of the buffer as they are; when the parse ended at an
\* end-of-attributes delimiter, o is the offset after that delimiter and no
\* item of the tree starts after it.
C12_TrailingData ==
    pc = "done" =>
        /\ DataCalled <=> offset < Len(tvb)
        /\ DataCalled => data = [i \in 1..(Len(tvb) - offset) |-> tvb[offset + i]]
        /\ EndedAtEnd =>
              /\ offset = items[tas].start + 1
              /\ \A i \in 1..Len(items) : items[i].start <= items[tas].start

\* A parse has ended at an end-of-attributes delimiter with a whole named
\* record behind it, which went to the data dissector.
C12_Witness ==
    /\ pc = "done"
    /\ EndedAtEnd
    /\ DataCalled
    /\ Len(data) >= 7
    /\ data[1] >= 16

----------------------------------------------------------------------------
\* The buffer ends inside the value record that starts at offset o.
PartialAt(t, o) ==
    /\ tvb_offset_exists(t, o)
    /\ ~IsDelimiterAt(t, o)
    /\ ~CompleteValueAt(t, o)

\* C13: when the buffer ends inside the value record at the offset, the
\* iteration on that record throws nothing and adds no item to the tree, and
\* the parse stops there: it leaves the loop, or it has no byte left to read.
C13_TruncationStops ==
    [][(pc = "loop" /\ PartialAt(tvb, offset)) =>
          /\ pc' # "exception"
          /\ items' = items
          /\ pc' = "return" \/ ~tvb_offset_exists(tvb, offset')
      ]_<<vars, pvars>>

----------------------------------------------------------------------------
\* C14: on every buffer the parse ends.  An iteration of the loop runs only
\* with a byte at the offset and, unless it throws, moves the offset forward,
\* by 1 over a delimiter and by 5 or more over a value record; with no byte
\* at the offset the loop is left; and the parse is eventually out of its
\* loop for good.
C14_Terminates ==
    /\ [][pc = "loop" =>
            IF tvb_offset_exists(tvb, offset)
            THEN \/ pc' = "exception"
                 \/ IF IsDelimiterAt(tvb, offset)
                    THEN offset' = offset + 1
                    ELSE offset' >= offset + 5
            ELSE pc' = "return"
        ]_<<vars, pvars>>
    /\ [][pc # "loop" => pc' # "loop"]_<<vars, pvars>>
    /\ <>(pc # "loop")

\* The loop was left for want of a byte, after a value record whose declared
\* lengths reach past the end of the buffer.
C14_Witness ==
    /\ pc = "return"
    /\ ~EndedAtEnd
    /\ offset > Len(tvb)

----------------------------------------------------------------------------
\* The attribute items of a list of items that hang under tree g.
AttributesOf(its, g) ==
    {i \in 1..Len(its) : its[i].kind = "attr" /\ its[i].parent = g}

\* The attribute the parse has open: the item attr_tree names, if it is an
\* attribute's.
AttributeOpen ==
    /\ attr_tree \in 1..Len(items)
    /\ items[attr_tree].kind = "attr"

\* The record at the offset is whole, has no name, and comes right after
\* the named record that opened the open attribute.
NamelessAfterNamed ==
    /\ pc = "loop"
    /\ tvb_offset_exists(tvb, offset)
    /\ ~IsDelimiterAt(tvb, offset)
    /\ CompleteValueAt(tvb, offset)
    /\ tvb_get_ntohs(tvb, offset + 1) = 0
    /\ AttributeOpen
    /\ items[attr_tree].start + items[attr_tree].len = offset

\* The tag class of the record at the offset is that of the record that
\* opened the open attribute.
SameClassAsOpen ==
    (tvb_get_guint8(tvb, offset) \div 16) = (items[attr_tree].val \div 16)

\* C15: a whole value record without a name that comes right after a named
\* record of its own tag class opens no attribute: the group has as many
\* attributes after it as before, the attribute stays open, and every item
\* the record adds, its tag item among them, hangs under that attribute.
C15_AdditionalValue ==
    [][(NamelessAfterNamed /\ SameClassAsOpen) =>
          /\ pc' = "loop"
          /\ attr_tree' = attr_tree
          /\ AttributesOf(items', as_tree) = AttributesOf(items, as_tree)
          /\ Len(items') > Len(items)
          /\ \A i \in (Len(items) + 1)..Len(items') :
                items'[i].parent = attr_tree
          /\ \E i \in (Len(items) + 1)..Len(items') :
                items'[i].kind = "tag" /\ items'[i].start = offset
      ]_<<vars, pvars>>

\* An attribute of a group holds the tag items of two records of one class,
\* the second right after the first.
C15_Witness ==
    \E k \in 1..Len(items) :
        /\ items[k].kind = "attr"
        /\ items[k].parent \notin {Root, Null}
        /\ \E i, j \in 1..Len(items) :
              /\ items[i].kind = "tag" /\ items[i].parent = k
              /\ items[j].kind = "tag" /\ items[j].parent = k
              /\ items[i].start = items[k].start
              /\ items[j].start = items[k].start + items[k].len
              /\ (items[i].val \div 16) = (items[j].val \div 16)

----------------------------------------------------------------------------
\* C16: in the tree of a finished parse, every record whose items hang under
\* an attribute has the tag class of the record that opened the attribute: a
\* record without a name is attached to an attribute only of its own class.
C16_ClassesMatch ==
    pc = "done" =>
        \A k \in 1..Len(items) :
            items[k].kind = "attr" =>
                \A i \in 1..Len(items) :
                    (items[i].kind = "tag" /\ items[i].parent = k) =>
                        (items[i].val \div 16) = (items[k].val \div 16)

----------------------------------------------------------------------------
\* The byte before the offset was a delimiter that opened the group under
\* way, and the byte at the offset is a delimiter too.
DelimiterAfterDelimiter ==
    /\ pc = "loop"
    /\ tas \in 1..Len(items)
    /\ items[tas].start = offset - 1
    /\ tvb_offset_exists(tvb, offset)
    /\ IsDelimiterAt(tvb, offset)

\* C17: a delimiter right after a delimiter leaves the first one's group in
\* the tree, one byte long and with nothing under it, and the parse goes on
\* with the second delimiter: it throws nothing, adds that delimiter's group
\* and moves one byte on, leaving the loop only at end-of-attributes.
C17_EmptyGroup ==
    [][DelimiterAfterDelimiter =>
          /\ Len(items') = Len(items) + 1
          /\ items'[tas].kind = "group"
          /\ items'[tas].val = items[tas].val
          /\ items'[tas].start = offset - 1
          /\ items'[tas].len = 1
          /\ \A i \in 1..Len(items') : items'[i].parent # tas
          /\ items'[Len(items')].kind = "group"
          /\ items'[Len(items')].start = offset
          /\ items'[Len(items')].val = tvb_get_guint8(tvb, offset)
          /\ offset' = offset + 1
          /\ pc' = IF tvb_get_guint8(tvb, offset) = 3 THEN "return" ELSE "loop"
      ]_<<vars, pvars>>

\* An empty group, the group of the delimiter right after it, and an
\* attribute in that second group.
C17_Witness ==
    \E g, h, a \in 1..Len(items) :
        /\ items[g].kind = "group" /\ items[h].kind = "group"
        /\ items[h].start = items[g].start + 1
        /\ items[g].len = 1
        /\ \A i \in 1..Len(items) : items[i].parent # g
        /\ items[a].kind = "attr" /\ items[a].parent = h

----------------------------------------------------------------------------
\* No delimiter has been read yet and the record at the offset is a whole
\* value record.
ValueBeforeDelimiter ==
    /\ pc = "loop"
    /\ tas = Null
    /\ tvb_offset_exists(tvb, offset)
    /\ ~IsDelimiterAt(tvb, offset)
    /\ CompleteValueAt(tvb, offset)

\* Item i of its hangs under the root, or under an attribute that does.
UnderRoot(its, i) ==
    \/ its[i].parent = Root
    \/ /\ its[i].kind # "attr"
       /\ its[i].parent \in 1..Len(its)
       /\ its[its[i].parent].kind = "attr"
       /\ its[its[i].parent].parent = Root

\* C18: a value record read before any delimiter is attached under the root
\* and not under a group: the attribute a named record opens hangs under the
\* root, the other items of the record under the root or under such an
\* attribute, no group is made, and the parse goes on at the next record.
C18_ValueBeforeDelimiter ==
    [][ValueBeforeDelimiter =>
          /\ pc' = "loop"
          /\ offset' = offset + ValueLenAt(tvb, offset)
          /\ tas' = Null
          /\ \A i \in (Len(items) + 1)..Len(items') :
                items'[i].kind # "group" /\ UnderRoot(items', i)
          /\ (/\ tvb_get_ntohs(tvb, offset + 1) # 0
              /\ tvb_get_guint8(tvb, offset) \div 16 \in {2, 3, 4})
             => /\ Len(items') > Len(items)
                /\ items'[Len(items) + 1].kind = "attr"
                /\ items'[Len(items) + 1].parent = Root
                /\ items'[Len(items) + 1].start = offset
      ]_<<vars, pvars>>

\* A finished parse whose tree has an attribute under the root and, after
\* it, a group with an attribute of its own.
C18_Witness ==
    /\ pc = "done"
    /\ \E a, g, b \in 1..Len(items) :
          /\ items[a].kind = "attr" /\ items[a].parent = Root
          /\ items[g].kind = "group" /\ items[g].start > items[a].start
          /\ items[b].kind = "attr" /\ items[b].parent = g

----------------------------------------------------------------------------
\* The body of the message is a delimiter other than end-of-attributes and
\* then the end-of-attributes delimiter, the last byte of the buffer.
EmptyGroupThenEnd ==
    /\ Len(tvb) = HeaderLen + 2
    /\ tvb_get_guint8(tvb, HeaderLen) < 16
    /\ tvb_get_guint8(tvb, HeaderLen) # 3
    /\ tvb_get_guint8(tvb, HeaderLen + 1) = 3

GroupsOf(its) == {i \in 1..Len(its) : its[i].kind = "group"}

\* C19 as stated: on such a body the finished parse has consumed the buffer
\* and its tree holds exactly one group, which is empty.
C19_OneGroup ==
    (EmptyGroupThenEnd /\ pc = "done") =>
        /\ Cardinality(GroupsOf(items)) = 1
        /\ \A i \in 1..Len(items) : items[i].kind = "group"
        /\ offset = Len(tvb)
        /\ ~DataCalled

\* C19 amended: on such a body the tree of the returned parse holds exactly
\* two items, both one byte long, under the root and with nothing under
\* them: the group of the first delimiter and the item of the
\* end-of-attributes delimiter; the buffer is consumed, the data dissector is
\* not called, and the parse, once out of its loop, does not enter it again.
C19_GroupAndEnd ==
    /\ [](EmptyGroupThenEnd /\ Returned =>
            /\ Len(items) = 2
            /\ items[1] = [kind |-> "group", parent |-> Root,
                           start |-> HeaderLen, len |-> 1,
                           val |-> tvb_get_guint8(tvb, HeaderLen),
                           label |-> TagDesc(tvb_get_guint8(tvb, HeaderLen))]
            /\ items[2] = [kind |-> "group", parent |-> Root,
                           start |-> HeaderLen + 1, len |-> 1, val |-> 3,
                           label |-> "end-of-attributes-tag"]
            /\ offset = Len(tvb)
            /\ ~DataCalled)
    /\ [][(EmptyGroupThenEnd /\ pc # "loop") => pc' # "loop"]_<<vars, pvars>>

\* The parse of such a body is finished.
C19_Witness ==
    /\ EmptyGroupThenEnd
    /\ pc = "done"
    /\ Len(items) = 2

----------------------------------------------------------------------------
\* The length the value of a fixed-size kind has to have.
FixedLength(tag) ==
    CASE tag = 34 -> 1
      [] tag \in {33, 35} -> 4
      [] tag = 49 -> 11
      [] tag = 50 -> 9
      [] tag = 51 -> 8

\* What a named record of a fixed-size kind is rendered as when its length
\* is another.
Fallback(tag) ==
    CASE tag = 34 -> "Invalid boolean"
      [] tag = 33 -> "Invalid integer"
      [] tag = 35 -> "Invalid enum"
      [] tag \in {49, 50, 51} -> "hex"

\* The record at the offset is whole, of a fixed-size kind, and its declared
\* value length is not the kind's.
LengthMismatch ==
    /\ pc = "loop"
    /\ tvb_offset_exists(tvb, offset)
    /\ tvb_get_guint8(tvb, offset) \in {33, 34, 35, 49, 50, 51}
    /\ CompleteValueAt(tvb, offset)
    /\ tvb_get_ntohs(tvb, offset + 3 + tvb_get_ntohs(tvb, offset + 1))
          # FixedLength(tvb_get_guint8(tvb, offset))

----------------------------------------------------------------------------
\* The attribute items of the tree, and the record each was made from.

AttrItems == {i \in 1..Len(items) : items[i].kind = "attr"}
NameLenOf(i) == tvb_get_ntohs(tvb, items[i].start + 1)
NameOf(i) == tvb_get_ptr(tvb, items[i].start + 1 + 2, NameLenOf(i))
ValueLenOf(i) == tvb_get_ntohs(tvb, items[i].start + 1 + 2 + NameLenOf(i))
ValueOffsetOf(i) == items[i].start + 1 + 2 + NameLenOf(i) + 2
ValueOf(i) == tvb_get_ptr(tvb, ValueOffsetOf(i), ValueLenOf(i))

\* The attribute item i was made from a 4-byte enum.
IsEnum(i) == items[i].val = TAG_ENUM /\ ValueLenOf(i) = 4

\* The four bytes of a value as a signed number.
SignedOf(bytes) ==
    (IF bytes[1] >= 128 THEN bytes[1] - 256 ELSE bytes[1]) * 16777216
        + bytes[2] * 65536 + bytes[3] * 256 + bytes[4]

\* C21: a 4-byte enum under a name that is not exactly one of the nine
\* well-known names is rendered as a plain signed integer.
C21_OtherNamesPlain ==
    \A i \in AttrItems :
        IsEnum(i) /\ NameOf(i) \notin WellKnownNames
            => items[i].text = ToString(SignedOf(ValueOf(i)))

\* The table of a well-known name and its placeholder, by the exact name.
OwnTable(name) ==
    CASE name = PrinterStateName ->
           [vals |-> printer_state_vals, unknown |-> "Unknown Printer State"]
      [] name = JobStateName ->
           [vals |-> job_state_vals, unknown |-> "Unknown Job State"]
      [] name = DocumentStateName ->
           [vals |-> document_state_vals, unknown |-> "Unknown Document State"]
      [] name = OperationsSupportedName ->
           [vals |-> operation_vals, unknown |-> "Unknown Operation ID"]
      [] name = FinishingsName ->
           [vals |-> finishings_vals, unknown |-> "Unknown Finishings Value"]
      [] name \in {OrientationRequestedName, MediaFeedOrientationName} ->
           [vals |-> orientation_vals, unknown |-> "Unknown Orientation Value"]
      [] name = PrintQualityName ->
           [vals |-> quality_vals, unknown |-> "Unknown Print Quality"]
      [] name = TransmissionStatusName ->
           [vals |-> transmission_status_vals,
            unknown |-> "Unknown Transmission Status"]

\* C22: a 4-byte enum under one of the nine well-known names is rendered by
\* that name's own table, the two orientation names sharing one, and by the
\* table's placeholder when the table has no such value.
C22_OwnTable ==
    \A i \in AttrItems :
        IsEnum(i) /\ NameOf(i) \in WellKnownNames
            => LET own == OwnTable(NameOf(i))
                   v == SignedOf(ValueOf(i))
               IN  items[i].text =
                       IF v \in DOMAIN own.vals THEN own.vals[v]
                       ELSE own.unknown

\* Both orientation names have been rendered by the orientation table, or a
\* value no table has by a placeholder.
C22_Witness ==
    \E i \in AttrItems :
        /\ IsEnum(i)
        /\ NameOf(i) = MediaFeedOrientationName
        /\ \/ SignedOf(ValueOf(i)) = 4 /\ items[i].text = "landscape"
           \/ SignedOf(ValueOf(i)) = 0
              /\ items[i].text = "Unknown Orientation Value"

\* The attribute item i was made from a resolution of 9 bytes.
IsResolution(i) == items[i].val = TAG_RESOLUTION /\ ValueLenOf(i) = 9

\* The attribute item i was made from the resolution x by y in the unit u.
ResolutionOf(i, x, y, u) ==
    /\ IsResolution(i)
    /\ ValueOf(i) = Bytes32(x) \o Bytes32(y) \o <<u>>

\* C23, as stated: the resolution (600, 600, unit 3) renders "600x600dpi" and
\* the resolution (300, 600, unit 4) renders "300x600dpi".
C23_BothDpi ==
    \A i \in AttrItems :
        /\ ResolutionOf(i, 600, 600, 3) => items[i].text = "600x600dpi"
        /\ ResolutionOf(i, 300, 600, 4) => items[i].text = "300x600dpi"

\* C23, amended: the resolution (600, 600, unit 3) renders "600x600dpi" and
\* the resolution (300, 600, unit 4) renders "300x600dpcm".
C23_DpiAndDpcm ==
    \A i \in AttrItems :
        /\ ResolutionOf(i, 600, 600, 3) => items[i].text = "600x600dpi"
        /\ ResolutionOf(i, 300, 600, 4) => items[i].text = "300x600dpcm"

\* The resolution (300, 600, unit 4) has been rendered.
C23_Witness ==
    \E i \in AttrItems :
        ResolutionOf(i, 300, 600, 4) /\ items[i].text = "300x600dpcm"

\* C24: a resolution of 9 bytes renders as x, "x", y and "dpi" for the unit
\* 3, "dpcm" for the unit 4 and "unknown" for any other unit; a resolution of
\* another length renders as the hex digits of its bytes.
C24_Resolution ==
    \A i \in AttrItems :
        items[i].val = TAG_RESOLUTION
            => IF ValueLenOf(i) = 9
               THEN LET v == ValueOf(i)
                        suffix == CASE v[9] = 3 -> "dpi"
                                    [] v[9] = 4 -> "dpcm"
                                    [] OTHER -> "unknown"
                    IN  items[i].text =
                            ToString(SignedOf(SubSeq(v, 1, 4))) \o "x"
                            \o ToString(SignedOf(SubSeq(v, 5, 8))) \o suffix
               ELSE /\ items[i].label = "hex"
                    /\ Len(items[i].text) = 2 * ValueLenOf(i)
                    /\ items[i].text = bytes_to_str(ValueOf(i))

\* A resolution of a unit that is neither 3 nor 4 has been rendered, or one
\* of 8 bytes.
C24_Witness ==
    \E i \in AttrItems :
        /\ items[i].val = TAG_RESOLUTION
        /\ \/ ResolutionOf(i, 300, 600, 5) /\ items[i].text = "300x600unknown"
           \/ ValueLenOf(i) = 8 /\ items[i].text = "0101010101010101"

\* The four bytes of a value as an unsigned number, in decimal digits: of
\* 2^32 + s for a negative s, the last digit apart.
UnsignedText(bytes) ==
    LET s == SignedOf(bytes)
    IN  IF s >= 0
        THEN ToString(s)
        ELSE ToString(429496729 + ((s + 6) \div 10)) \o ToString((s + 6) % 10)

\* C25: a rangeOfInteger of 8 bytes renders as "lower-upper", both read as
\* unsigned 32-bit numbers, whatever their top bits.
C25_Unsigned ==
    \A i \in AttrItems :
        items[i].val = TAG_RANGEOFINTEGER /\ ValueLenOf(i) = 8
            => items[i].text =
                   UnsignedText(SubSeq(ValueOf(i), 1, 4)) \o "-"
                   \o UnsignedText(SubSeq(ValueOf(i), 5, 8))

\* The record at the offset is a text or a name with language, all in the
\* buffer.
WithLanguageAt(t, o) ==
    /\ tvb_offset_exists(t, o)
    /\ tvb_get_guint8(t, o) \in {TAG_TEXTWITHLANGUAGE, TAG_NAMEWITHLANGUAGE}
    /\ CompleteValueAt(t, o)

\* The nested lengths of a value lie inside the value.
NestedFit(v) ==
    /\ Len(v) >= 4
    /\ 2 + (v[1] * 256 + v[2]) + 2 <= Len(v)
    /\ LET ll == v[1] * 256 + v[2]
           sl == v[2 + ll + 1] * 256 + v[2 + ll + 2]
       IN  2 + ll + 2 + sl <= Len(v)

\* The text and the language of a value whose nested lengths fit.
NestedText(v) ==
    LET ll == v[1] * 256 + v[2]
        sl == v[2 + ll + 1] * 256 + v[2 + ll + 2]
    IN  format_text(SubSeq(v, 2 + ll + 2 + 1, 2 + ll + 2 + sl))
        \o " (" \o format_text(SubSeq(v, 3, 2 + ll)) \o ")"

\* C26: a text or name with language whose nested lengths run past the
\* value is rendered as the hex digits of the whole value, without failing;
\* one rendered as text has its text and language from inside the value.
C26_NestedLengths ==
    [][(pc = "loop" /\ WithLanguageAt(tvb, offset)) =>
          /\ pc' # "exception"
          /\ \A i \in (Len(items) + 1)..Len(items') :
                items'[i].kind = "attr" =>
                    LET nl == tvb_get_ntohs(tvb, items'[i].start + 1)
                        v == tvb_get_ptr(tvb, items'[i].start + 1 + 2 + nl + 2,
                                 tvb_get_ntohs(tvb, items'[i].start + 1 + 2 + nl))
                    IN  IF NestedFit(v)
                        THEN items'[i].label = "text (language)"
                                 => items'[i].text = NestedText(v)
                        ELSE /\ items'[i].label = "hex"
                             /\ items'[i].text = bytes_to_str(v)
      ]_<<vars, pvars>>

\* A number below 10000 in at least two, or four, digits.
TwoDigits(n) == IF n < 10 THEN "0" \o ToString(n) ELSE ToString(n)
FourDigits(n) ==
    IF n < 100 THEN "00" \o TwoDigits(n)
    ELSE IF n < 1000 THEN "0" \o ToString(n) ELSE ToString(n)

\* C27: a dateTime of 11 bytes renders as YYYY-MM-DDThh:mm:ss.d, the sign
\* character and hhmm, the fields taken in the byte order year (two bytes),
\* month, day, hour, minute, second, decisecond, sign, UTC hour, UTC minute;
\* the bytes 07 E8 03 0F 0C 1E 00 00 2B 00 00 render
\* "2024-03-15T12:30:00.0+0000".
C27_DateTime ==
    \A i \in AttrItems :
        items[i].val = TAG_DATETIME /\ ValueLenOf(i) = 11
            => LET v == ValueOf(i)
               IN  /\ items[i].text =
                         FourDigits(v[1] * 256 + v[2]) \o "-" \o TwoDigits(v[3])
                         \o "-" \o TwoDigits(v[4]) \o "T" \o TwoDigits(v[5])
                         \o ":" \o TwoDigits(v[6]) \o ":" \o TwoDigits(v[7])
                         \o "." \o ToString(v[8])
                         \o (IF v[9] = 43 THEN "+"
                             ELSE IF v[9] = 45 THEN "-" ELSE Chr(v[9]))
                         \o TwoDigits(v[10]) \o TwoDigits(v[11])
                   /\ v = <<7, 232, 3, 15, 12, 30, 0, 0, 43, 0, 0>>
                          => items[i].text = "2024-03-15T12:30:00.0+0000"

\* The dateTime of the example has been rendered.
C27_Witness ==
    \E i \in AttrItems :
        /\ items[i].val = TAG_DATETIME
        /\ ValueOf(i) = <<7, 232, 3, 15, 12, 30, 0, 0, 43, 0, 0>>
        /\ items[i].text = "2024-03-15T12:30:00.0+0000"

\* The offset of the first delimiter after the group g, or the end of the
\* message.
GroupEnd(its, g) ==
    LET later == {its[h].start : h \in {k \in GroupsOf(its) : k > g}}
    IN  IF later = {} THEN Len(tvb)
        ELSE CHOOSE o \in later : \A q \in later : o <= q

\* C28: once the parse has returned, every group runs from its delimiter to
\* the byte before the next delimiter, or to the end of the message when no
\* delimiter follows, the last group of a body without an end-of-attributes
\* delimiter too.
C28_GroupExtent ==
    Returned =>
        \A g \in GroupsOf(items) :
            items[g].val # TAG_END_OF_ATTRIBUTES
                => items[g].start + items[g].len = GroupEnd(items, g)

\* The record at the offset is a delimiter, or a value record all in the
\* buffer.
WholeRecordAt(t, o) ==
    /\ tvb_offset_exists(t, o)
    /\ IsDelimiterAt(t, o) \/ CompleteValueAt(t, o)

\* The label of a tag: its name, or "Reserved" and the raw value.
LabelOf(tag) ==
    IF tag \in DOMAIN tag_vals THEN tag_vals[tag]
    ELSE "Reserved (0x" \o Hex2(tag) \o ")"

\* The step from the record at the offset classifies its tag by the high
\* nibble and gets past the record: a tag below 16, and no other, starts a
\* group labelled by the tag and is stepped over; any other tag starts no
\* group, is labelled likewise where it is shown, and the whole record is
\* stepped over.
Classified ==
    LET tag == tvb_get_guint8(tvb, offset)
        new == (Len(items) + 1)..Len(items')
    IN  /\ pc' # "exception"
        /\ Len(items') >= Len(items)
        /\ IF tag \div 16 = 0
           THEN /\ offset' = offset + 1
                /\ new # {}
                /\ items'[Len(items')] =
                       [kind |-> "group", parent |-> Root, start |-> offset,
                        len |-> 1, val |-> tag, label |-> LabelOf(tag)]
           ELSE /\ offset' = offset + ValueLenAt(tvb, offset)
                /\ \A i \in new :
                      /\ items'[i].kind # "group"
                      /\ items'[i].kind = "tag"
                             => /\ items'[i].val = tag
                                /\ items'[i].label = LabelOf(tag)

\* C29: whatever the tag byte of a record, the parser classifies it by its
\* high nibble without failing, labels an unknown tag "Reserved" with its raw
\* value, and gets past the record.
C29_EveryTag ==
    [][(pc = "loop" /\ WholeRecordAt(tvb, offset)) => Classified]_<<vars, pvars>>

\* The record at the offset has a tag of the out-of-band class or of a
\* class without a decoder, and its two length fields are in the buffer.
SkippedClassAt(t, o) ==
    /\ tvb_offset_exists(t, o)
    /\ (tvb_get_guint8(t, o) \div 16) * 16 \notin {0, 32, 48, 64}
    /\ BytesExist(t, o + 1, 2)
    /\ BytesExist(t, o + 1 + 2 + tvb_get_ntohs(t, o + 1), 2)

\* C30: a value record of the out-of-band class or of an unrecognised class
\* is skipped: the offset advances by 1 + 2 + nameLen + 2 + valueLen, no item
\* is added for it whether it has a name or not, and the open attribute
\* stays as it was, for a following nameless record to be added to.
C30_Skipped ==
    [][(pc = "loop" /\ SkippedClassAt(tvb, offset)) =>
          /\ pc' = "loop"
          /\ offset' = offset + ValueLenAt(tvb, offset)
          /\ items' = items
          /\ AttributeOpen => attr_tree' = attr_tree
      ]_<<vars, pvars>>

\* A named out-of-band record has been skipped between a named integer and a
\* nameless one, and the nameless record hangs under the attribute of the
\* named integer.
C30_Witness ==
    \E k, j \in 1..Len(items) :
        /\ items[k].kind = "attr"
        /\ items[j].kind = "tag" /\ items[j].parent = k
        /\ LET skipped == items[k].start + items[k].len
           IN  /\ SkippedClassAt(tvb, skipped)
               /\ tvb_get_guint8(tvb, skipped) = 16
               /\ tvb_get_ntohs(tvb, skipped + 1) > 0
               /\ items[j].start = skipped + ValueLenAt(tvb, skipped)
               /\ tvb_get_ntohs(tvb, items[j].start + 1) = 0

\* The group opened last, and a nameless value record, all in the buffer,
\* right after its delimiter.
LastGroup == Max(GroupsOf(items))

NamelessAfterDelimiter ==
    /\ pc = "loop"
    /\ GroupsOf(items) # {}
    /\ offset = items[LastGroup].start + 1
    /\ tvb_offset_exists(tvb, offset)
    /\ ~IsDelimiterAt(tvb, offset)
    /\ CompleteValueAt(tvb, offset)
    /\ tvb_get_ntohs(tvb, offset + 1) = 0

\* C31: a nameless value record that is the first record after a delimiter
\* is put directly under the group that delimiter opened, never under an
\* attribute opened before the delimiter.
C31_NamelessUnderGroup ==
    [][NamelessAfterDelimiter =>
          /\ pc' = "loop"
          /\ GroupsOf(items') = GroupsOf(items)
          /\ \A i \in (Len(items) + 1)..Len(items') :
                items'[i].kind # "attr" /\ items'[i].parent = LastGroup
          /\ tvb_get_guint8(tvb, offset) \div 16 \in {2, 3, 4}
                => /\ Len(items') > Len(items)
                   /\ attr_tree' = LastGroup
      ]_<<vars, pvars>>

\* A nameless record hangs directly under the second group of a message
\* whose first group holds an attribute.
C31_Witness ==
    \E g, h, k, i \in 1..Len(items) :
        /\ items[g].kind = "group" /\ items[h].kind = "group" /\ g < h
        /\ items[k].kind = "attr" /\ items[k].parent = g
        /\ items[i].kind = "tag" /\ items[i].parent = h
        /\ items[i].start = items[h].start + 1
        /\ BytesExist(tvb, items[i].start + 1, 2)
        /\ tvb_get_ntohs(tvb, items[i].start + 1) = 0

----------------------------------------------------------------------------
\* C32: every transaction of every conversation's store has a request frame
\* that is not 0, and a response frame that is 0 or the frame of a response
\* with the transaction's id in that conversation, first visited after the
\* request and so of a greater frame number.
C32_StoredFrames ==
    \A c \in Conversations :
        \A r \in DOMAIN Pdus(c) :
            LET t == Pdus(c)[r]
            IN  /\ t.req_frame # 0
                /\ t.req_frame \in 1..Len(frames)
                /\ \/ t.rep_frame = 0
                   \/ /\ t.rep_frame \in 1..Len(frames)
                      /\ ~frames[t.rep_frame].is_request
                      /\ frames[t.rep_frame].request_id = r
                      /\ frames[t.rep_frame].conv = c
                      /\ t.rep_frame > t.req_frame

\* A store holds a transaction with its response and one without.
C32_Witness ==
    \E c \in Conversations :
        /\ DOMAIN Pdus(c) = {1, 2}
        /\ Pdus(c)[1].rep_frame > Pdus(c)[1].req_frame
        /\ Pdus(c)[1].req_frame >= 1
        /\ Pdus(c)[2].rep_frame = 0
        /\ Pdus(c)[2].req_frame >= 1

\* The frames after n that carry the id of frame n in its conversation and
\* are requests (q = TRUE) or responses (q = FALSE).
LaterWithId(n, q) ==
    {m \in (n + 1)..Len(frames) : /\ frames[m].is_request = q
                                  /\ HeaderReadable(frames[m])
                                  /\ frames[m].conv = frames[n].conv
                                  /\ frames[m].request_id = frames[n].request_id}

\* R is a request, S a later response with its id in its conversation, and
\* no request with that id came after R.
RequestThenResponse(R, S) ==
    /\ frames[R].is_request /\ HeaderReadable(frames[R])
    /\ S \in LaterWithId(R, FALSE)
    /\ LaterWithId(R, TRUE) = {}

\* The last call was a re-visit of frame n.
Revisited(n) == Called /\ pinfo.visited /\ pinfo.num = n

\* C33, as stated: after a request R and then a response S with its id,
\* with no other request of that id afterwards, a re-visit of R reports S as
\* the frame of its response, and a re-visit of S reports R as its request
\* and the time between the two.
C33_Pairing ==
    \A R, S \in 1..Len(frames) :
        RequestThenResponse(R, S) =>
            /\ Revisited(R) => ipp_tree.response_in = <<S>>
            /\ Revisited(S) =>
                  /\ ipp_tree.response_to = <<R>>
                  /\ ipp_tree.response_time =
                         <<frames[S].abs_ts - frames[R].abs_ts>>

\* C33, amended: the same, when no other response with that id came after S
\* either.
C33_PairingOfLast ==
    \A R, S \in 1..Len(frames) :
        RequestThenResponse(R, S) /\ LaterWithId(S, FALSE) = {} =>
            /\ Revisited(R) => ipp_tree.response_in = <<S>>
            /\ Revisited(S) =>
                  /\ ipp_tree.response_to = <<R>>
                  /\ ipp_tree.response_time =
                         <<frames[S].abs_ts - frames[R].abs_ts>>

\* A response that came a time unit after its request, and after frames of
\* another id, has been re-visited and reports the request and the time.
C33_Witness ==
    \E R, S \in 1..Len(frames) :
        /\ RequestThenResponse(R, S) /\ LaterWithId(S, FALSE) = {}
        /\ S > R + 1
        /\ Revisited(S)
        /\ ipp_tree.response_to = <<R>>
        /\ ipp_tree.response_time = <<1>>

\* The first visit of a response whose transaction already has a response
\* frame.
SecondResponse ==
    /\ FirstVisitStep
    /\ ~NewFrame.is_request
    /\ HeaderReadable(NewFrame)
    /\ NewFrame.request_id \in DOMAIN Pdus(NewFrame.conv)
    /\ Pdus(NewFrame.conv)[NewFrame.request_id].rep_frame # 0

\* The step of a second response: its frame replaces the response frame, the
\* request frame and the request time stay.
C34_Step ==
    SecondResponse =>
        LET c == NewFrame.conv
            r == NewFrame.request_id
        IN  /\ ipp_info'[c].pdus[r].rep_frame = Len(frames')
            /\ ipp_info'[c].pdus[r].rep_frame > Pdus(c)[r].rep_frame
            /\ ipp_info'[c].pdus[r].req_frame = Pdus(c)[r].req_frame
            /\ ipp_info'[c].pdus[r].req_time = Pdus(c)[r].req_time

\* A re-visited request that no request with its id has followed reports the
\* last of the responses with its id that have followed it.
C34_LastReported ==
    \A R \in 1..Len(frames) :
        (/\ Revisited(R)
         /\ frames[R].is_request
         /\ LaterWithId(R, TRUE) = {}
         /\ LaterWithId(R, FALSE) # {})
        => ipp_tree.response_in = <<Max(LaterWithId(R, FALSE))>>

\* C34: the first visit of a second response with the id of a transaction
\* that has a response frame replaces that frame by its own and leaves the
\* request frame and time as they were, and a later re-visit of the request
\* reports the last response.
C34_LastResponseWins == [](C34_LastReported) /\ [][C34_Step]_vars

\* A request with two responses has been re-visited and reports the second.
C34_Witness ==
    \E R \in 1..Len(frames) :
        /\ Revisited(R)
        /\ frames[R].is_request
        /\ LaterWithId(R, TRUE) = {}
        /\ Cardinality(LaterWithId(R, FALSE)) = 2
        /\ ipp_tree.response_in = <<Max(LaterWithId(R, FALSE))>>
        /\ Pdus(frames[R].conv)[frames[R].request_id].req_frame = R

\* The step is a call of dissect_ipp on the frame n.
Dissects(n) ==
    /\ pinfo'.num = n
    /\ \/ frames' = frames /\ n \in 1..Len(frames)
       \/ FirstVisitStep /\ n = Len(frames')

\* C35: a call on a message too short for the 8-byte header fails before
\* the store is touched: no conversation's proto data is created and no
\* transaction is inserted or changed, on a first visit as on a re-visit.
C35_ShortMessage ==
    [][\A n \in 1..Len(frames') :
          (Dissects(n) /\ frames'[n].tvb_len < 8) =>
              /\ ipp_info' = ipp_info
              /\ result' = "exception"
              /\ ipp_tree'.response_in = <<>>
              /\ ipp_tree'.response_to = <<>>
      ]_vars

\* A short request has been first visited while its conversation had no
\* store yet, and a short response re-visited after a request was recorded.
C35_Witness ==
    /\ Len(frames) = 3
    /\ frames[1].tvb_len < 8 /\ frames[1].is_request
    /\ frames[2].tvb_len = 8 /\ frames[2].is_request
    /\ frames[2].request_id = 1
    /\ frames[3].tvb_len < 8 /\ ~frames[3].is_request
    /\ Pdus("A")[1] = [req_frame |-> 2, rep_frame |-> 0,
                       req_time |-> frames[2].abs_ts]
    /\ pinfo = [num |-> 3, visited |-> TRUE]
    /\ result = "exception"

====
